---- MODULE Spec2Model ----
(***************************************************************************)
(* Model of the quoting core of nbailo/ai-web3.                            *)
(*                                                                         *)
(* StrategyAgent (src/makeragent/Smart Chat Bot.py) owns the state store:  *)
(* per-maker nonces, the idempotency cache with its expiry table, and the  *)
(* daily volumes.  generate_quote is modelled twice over the same store:   *)
(*   Spec      one call at a time (each call is one atomic action);        *)
(*   SpecConc  request handlers whose statements interleave.               *)
(* process_quote_request of src/strategyAgentNew/enforcer.py, a stateless  *)
(* sibling pipeline over a depth curve, is modelled under SpecEnf.         *)
(*                                                                         *)
(* Amounts are floats in the source; here they are fixed-point integers    *)
(* in thousandths of a token, prices are whole numbers, and a float        *)
(* product or quotient is the floor of the exact value.                    *)
(***************************************************************************)
EXTENDS Integers, Sequences, FiniteSets, TLC

\* ------------------------------------------------------------------ bounds
MaxTime == 2          \* the clock runs over 0..MaxTime
MaxNonce == 2         \* a maker is given at most MaxNonce nonces
DayLen == 2           \* seconds per UTC day in the model
MaxVolume == 3000     \* committed volume is recorded up to MaxVolume

\* ------------------------------------------------------- program constants
NoMax == -1                         \* MakerConfig.max_trade_size = None
FeeBps == 10                        \* fee_bps in generate_quote
DefaultMinSpreadBps == 10           \* MakerConfig.min_spread_bps
DefaultMaxSpreadBps == 100          \* MakerConfig.max_spread_bps
BpsDenom == 10000                   \* basis points per unit
supported_chains == {1, 56, 137, 42161}

Makers == {"m1", "m2"}
Keys == {"k1", "k2"}
Tokens == {"A", "B"}

\* RejectReason of Smart Chat Bot.py
RejectReason ==
  {"MAKER_PAUSED", "INSUFFICIENT_BUDGET", "STALE_PRICING", "PAIR_NOT_ALLOWED",
   "EXCEEDS_MAX_TRADE_SIZE", "EXCEEDS_DAILY_CAP", "STRATEGY_INACTIVE",
   "STRATEGY_DOCKED", "INSUFFICIENT_ALLOWANCE", "INVALID_CHAIN",
   "INVALID_TOKEN", "NONCE_EXHAUSTED", "INTERNAL_ERROR"}

\* ------------------------------------------------------ python dict helpers
EmptyDict == [x \in {} |-> 0]
Get(f, k, dflt) == IF k \in DOMAIN f THEN f[k] ELSE dflt
Put(f, k, v) == [x \in (DOMAIN f) \cup {k} |-> IF x = k THEN v ELSE f[x]]
Del(f, k) == [x \in (DOMAIN f) \ {k} |-> f[x]]

\* a calendar that never turns
UtcDateFrozen(t) == 0

\* _utc_date_str: the UTC date of a Unix time
UtcDate(t) == t \div DayLen

VARIABLES
  \* StrategyAgent state store
  maker_nonces,        \* _maker_nonces: maker -> next nonce
  quote_cache,         \* _quote_cache: idempotency key -> intent
  cache_expiry,        \* _cache_expiry: idempotency key -> expiry
  daily_volumes,       \* _daily_volumes: maker -> token -> volume
  last_volume_reset,   \* _last_volume_reset (a date)
  now,                 \* the wall clock, Unix seconds
  \* observation of the calls
  last,                \* the response of the latest call, with what it was given
  hist,                \* what has been returned so far
  \* interleaved request handlers (SpecConc)
  pc,                  \* handler -> its position in generate_quote
  loc,                 \* handler -> its local variables
  res,                 \* handler -> what it returned
  \* the stateless pipeline of strategyAgentNew (SpecEnf)
  enf,                 \* the request given and the response produced
  \* the state of strategy-agent/dump.py (SpecDump)
  dump,                \* StrategyAgentState and the latest response
  \* the HTTP endpoints of the two Flask applications (SpecHttp)
  http,                \* the request body and the response sent
  \* the state of strategy-agent/datatypes.py (SpecAgent)
  agent,               \* StrategyAgentState and the latest result
  \* the construction of QuoteRequest objects (SpecKey)
  made,                \* two requests as given and as constructed
  \* _calculate_amounts and the gates applied to one request (SpecCalc)
  calc,                \* the arguments and what was computed
  \* the fill and revert tables of StrategyAgent (SpecFill)
  ledger,              \* _fills and _reverts
  \* the depth curve of the price engine (SpecCurve)
  curve,               \* the amount grid given and the curve built
  \* the maker agent's chat session (SpecChat)
  chat                 \* MakerAgent: config, pending action, last reply

rest == <<calc, ledger, curve, chat>>
store == <<maker_nonces, quote_cache, cache_expiry, daily_volumes, last_volume_reset>>
vars == <<maker_nonces, quote_cache, cache_expiry, daily_volumes, last_volume_reset,
          now, last, hist, pc, loc, res, enf, dump, http, agent, made, rest>>

\* ---------------------------------------------------------------- intents
NoIntent ==
  [maker |-> "", token_in |-> "", token_out |-> "", amount_in |-> 0,
   amount_out |-> 0, nonce |-> -2, expiry |-> 0, min_out_net |-> 0,
   ttl_sec |-> 0, idempotency_key |-> "", reason |-> "", rejected |-> FALSE,
   spread_bps |-> 0]

\* _create_rejected_intent
CreateRejectedIntent(req, cfg, reason) ==
  [maker |-> cfg.maker_address, token_in |-> req.token_in,
   token_out |-> req.token_out, amount_in |-> 0, amount_out |-> 0,
   nonce |-> -1, expiry |-> 0, min_out_net |-> 0, ttl_sec |-> 0,
   idempotency_key |-> req.idempotency_key, reason |-> reason,
   rejected |-> TRUE, spread_bps |-> 0]

\* a lookup with the two keys in the wrong order
GetDailyVolumeSwapped(vols, maker, token) == Get(Get(vols, token, EmptyDict), maker, 0)

\* _get_daily_volume
GetDailyVolume(vols, maker, token) == Get(Get(vols, maker, EmptyDict), token, 0)

\* _update_daily_volume
UpdateDailyVolume(vols, maker, token, amount) ==
  LET row == Get(vols, maker, EmptyDict)
  IN Put(vols, maker, Put(row, token, Get(row, token, 0) + amount))

Max2(a, b) == IF a >= b THEN a ELSE b
Min2(a, b) == IF a <= b THEN a ELSE b

\* a spread that is not widened under low confidence
SpreadBpsNotWidened(pricing, cfg) ==
  Max2(cfg.min_spread_bps, Min2(pricing.spread_bps, cfg.max_spread_bps))

\* _calculate_amounts, the spread: clamp, widened by 1.5 under low confidence
SpreadBps(pricing, cfg) ==
  LET clamped == Max2(cfg.min_spread_bps, Min2(pricing.spread_bps, cfg.max_spread_bps))
  IN IF pricing.confidence < 80 THEN (clamped * 3) \div 2 ELSE clamped

\* _calculate_amounts raises ZeroDivisionError on a SELL at bid 0
CalcRaises(req, pricing) == req.side # "BUY" /\ pricing.bid_price = 0

\* _calculate_amounts: (amount_in, amount_out, spread_bps)
CalculateAmounts(req, pricing, cfg) ==
  LET s == SpreadBps(pricing, cfg)
  IN IF req.side = "BUY"
     THEN [amount_in |-> (req.amount * pricing.ask_price * (BpsDenom + s))
                            \div BpsDenom,
           amount_out |-> req.amount, spread_bps |-> s]
     ELSE [amount_in |-> req.amount,
           amount_out |-> (req.amount * BpsDenom)
                            \div (pricing.bid_price * (BpsDenom + s)),
           spread_bps |-> s]

\* gates that look at the paused flag only after the chain snapshot
GateReasonPausedLate(req, cfg, pricing, chain, token_out_daily) ==
  LET pair == <<req.token_in, req.token_out>>
      reverse_pair == <<req.token_out, req.token_in>>
      amt == CalculateAmounts(req, pricing, cfg)
  IN IF req.chain_id \notin supported_chains THEN "INVALID_CHAIN"
     ELSE IF ~cfg.paused /\ cfg.allowed_pairs # {} /\ pair \notin cfg.allowed_pairs
             /\ reverse_pair \notin cfg.allowed_pairs THEN "PAIR_NOT_ALLOWED"
     ELSE IF ~cfg.paused /\ pricing.is_stale THEN "STALE_PRICING"
     ELSE IF CalcRaises(req, pricing) THEN "RAISED"
     ELSE IF ~cfg.paused /\ cfg.max_trade_size # NoMax
             /\ (amt.amount_in > cfg.max_trade_size
                 \/ amt.amount_out > cfg.max_trade_size)
          THEN "EXCEEDS_MAX_TRADE_SIZE"
     ELSE IF ~cfg.paused /\ req.token_out \in DOMAIN cfg.daily_caps
             /\ token_out_daily + amt.amount_out > cfg.daily_caps[req.token_out]
          THEN "EXCEEDS_DAILY_CAP"
     ELSE IF ~chain.is_active THEN "STRATEGY_INACTIVE"
     ELSE IF chain.is_docked THEN "STRATEGY_DOCKED"
     ELSE IF chain.token_out_budget < amt.amount_out THEN "INSUFFICIENT_BUDGET"
     ELSE IF chain.maker_allowance < amt.amount_out THEN "INSUFFICIENT_ALLOWANCE"
     ELSE IF cfg.paused THEN "MAKER_PAUSED"
     ELSE ""

\* generate_quote, steps 2-12: the gates.  "" when every check passes.
GateReason(req, cfg, pricing, chain, token_out_daily) ==
  LET pair == <<req.token_in, req.token_out>>
      reverse_pair == <<req.token_out, req.token_in>>
      amt == CalculateAmounts(req, pricing, cfg)
  IN IF req.chain_id \notin supported_chains THEN "INVALID_CHAIN"
     ELSE IF cfg.paused THEN "MAKER_PAUSED"
     ELSE IF cfg.allowed_pairs # {} /\ pair \notin cfg.allowed_pairs
             /\ reverse_pair \notin cfg.allowed_pairs THEN "PAIR_NOT_ALLOWED"
     ELSE IF pricing.is_stale THEN "STALE_PRICING"
     ELSE IF CalcRaises(req, pricing) THEN "RAISED"
     ELSE IF cfg.max_trade_size # NoMax
             /\ (amt.amount_in > cfg.max_trade_size
                 \/ amt.amount_out > cfg.max_trade_size)
          THEN "EXCEEDS_MAX_TRADE_SIZE"
     ELSE IF req.token_out \in DOMAIN cfg.daily_caps
             /\ token_out_daily + amt.amount_out > cfg.daily_caps[req.token_out]
          THEN "EXCEEDS_DAILY_CAP"
     ELSE IF ~chain.is_active THEN "STRATEGY_INACTIVE"
     ELSE IF chain.is_docked THEN "STRATEGY_DOCKED"
     ELSE IF chain.token_out_budget < amt.amount_out THEN "INSUFFICIENT_BUDGET"
     ELSE IF chain.maker_allowance < amt.amount_out THEN "INSUFFICIENT_ALLOWANCE"
     ELSE ""

\* a fee that is added instead of deducted
MinOutNetFeeAdded(amount_out) == (amount_out * (BpsDenom + FeeBps)) \div BpsDenom

\* generate_quote: min_out_net = amount_out * (1 - fee_bps / 10000)
MinOutNet(amount_out) == (amount_out * (BpsDenom - FeeBps)) \div BpsDenom

\* generate_quote, step 13: the accepted intent
BuildIntent(req, cfg, pricing, nonce, issued_at) ==
  LET amt == CalculateAmounts(req, pricing, cfg)
  IN [maker |-> cfg.maker_address, token_in |-> req.token_in,
      token_out |-> req.token_out, amount_in |-> amt.amount_in,
      amount_out |-> amt.amount_out, nonce |-> nonce,
      expiry |-> issued_at + cfg.default_ttl_sec,
      min_out_net |-> MinOutNet(amt.amount_out),
      ttl_sec |-> cfg.default_ttl_sec,
      idempotency_key |-> req.idempotency_key, reason |-> "",
      rejected |-> FALSE, spread_bps |-> amt.spread_bps]

\* ------------------------------------------------------------------ inputs
\* Amounts: requests of 1000 and 2000; a budget or allowance of 100000 covers
\* every trade and one of 500 covers none; a max_trade_size of 1500 lies
\* between the two request sizes; a daily cap of 2500 admits two small
\* trades and not a small and a large one.
BaseReq(k) ==
  [chain_id |-> 56, side |-> "SELL", token_in |-> "A", token_out |-> "B",
   amount |-> 1000, idempotency_key |-> k]
BaseCfg(m) ==
  [maker_address |-> m, allowed_pairs |-> {}, max_trade_size |-> NoMax,
   daily_caps |-> EmptyDict, paused |-> FALSE,
   min_spread_bps |-> DefaultMinSpreadBps, max_spread_bps |-> DefaultMaxSpreadBps,
   default_ttl_sec |-> 1]
BasePricing ==
  [bid_price |-> 1, ask_price |-> 1, spread_bps |-> 20, is_stale |-> FALSE,
   confidence |-> 95]
BaseChain ==
  [is_active |-> TRUE, is_docked |-> FALSE, token_out_budget |-> 100000,
   maker_allowance |-> 100000]
Base(m, k) ==
  [req |-> BaseReq(k), cfg |-> BaseCfg(m), pricing |-> BasePricing, chain |-> BaseChain]

\* requests that differ in what the policy gate looks at
GateInputs(m, k) ==
  { [Base(m, k) EXCEPT !.req.chain_id = c, !.cfg.paused = p,
                       !.cfg.allowed_pairs = ap, !.pricing.is_stale = st] :
      c \in {56, 999}, p \in BOOLEAN,
      ap \in {{}, {<<"B", "A">>}, {<<"C", "D">>}}, st \in BOOLEAN }

\* requests that differ in side, size and limits
AmountInputs(m, k) ==
  { [Base(m, k) EXCEPT !.req.side = sd, !.req.amount = a,
                       !.cfg.max_trade_size = mt,
                       !.cfg.daily_caps = IF cp THEN Put(EmptyDict, "B", 2500)
                                               ELSE EmptyDict] :
      sd \in {"BUY", "SELL"}, a \in {1000, 2000}, mt \in {NoMax, 1500},
      cp \in BOOLEAN }

\* requests in the other direction, and with the longer TTL
OtherInputs(m, k) ==
  { [Base(m, k) EXCEPT !.req.token_in = "B", !.req.token_out = "A",
                       !.cfg.daily_caps = Put(EmptyDict, "A", 2500)],
    [Base(m, k) EXCEPT !.cfg.default_ttl_sec = 2] }

\* requests that differ in the chain snapshot
ChainInputs(m, k) ==
  { [Base(m, k) EXCEPT !.chain.is_active = ac, !.chain.is_docked = dk,
                       !.chain.token_out_budget = b,
                       !.chain.maker_allowance = al] :
      ac \in BOOLEAN, dk \in BOOLEAN,
      b \in {500, 100000}, al \in {500, 100000} }

\* requests that differ in the pricing snapshot
PricingInputs(m, k) ==
  { [Base(m, k) EXCEPT !.pricing.bid_price = 0],
    [Base(m, k) EXCEPT !.pricing.bid_price = 2],
    [Base(m, k) EXCEPT !.pricing.confidence = 70] }

\* requests under a paused policy whose chain snapshot would not pass
PausedInputs(m, k) ==
  { [Base(m, k) EXCEPT !.cfg.paused = TRUE, !.chain.is_active = FALSE,
                       !.chain.is_docked = TRUE, !.chain.token_out_budget = 0,
                       !.chain.maker_allowance = 0] }

\* maker m1 under key k1 sends every kind of request; the other maker and
\* the other key send the plain request
Inputs ==
  GateInputs("m1", "k1") \cup AmountInputs("m1", "k1") \cup OtherInputs("m1", "k1")
  \cup ChainInputs("m1", "k1") \cup PricingInputs("m1", "k1")
  \cup PausedInputs("m1", "k1")
  \cup { Base(m, k) : m \in Makers, k \in Keys }

\* ------------------------------------------------- one call at a time: Spec
Handlers == {"h1", "h2"}
NoLoc ==
  [in |-> Base("", ""), nonce |-> -1, tmp |-> 0, day |-> 0, intent |-> NoIntent,
   overlap |-> FALSE]
NoRes == [kind |-> "none", intent |-> NoIntent]
NoEnf == [phase |-> "none"]
NoDumpIntent ==
  [maker |-> "", tokenIn |-> "", tokenOut |-> "", amountIn |-> 0, amountOut |-> 0,
   strategyHash |-> "", nonce |-> 0, expiry |-> 0, minOutNet |-> 0, reason |-> "",
   idempotencyKey |-> ""]
NoDumpOut ==
  [kind |-> "none", intent |-> NoDumpIntent, reason |-> "", key |-> "", fresh |-> FALSE]
NoDump ==
  [maker_nonces |-> EmptyDict, quote_cache |-> EmptyDict, daily_volumes |-> EmptyDict,
   out |-> NoDumpOut]

NoHttp ==
  [phase |-> "none", endpoint |-> "", shape |-> "", rejections |-> <<>>, status |-> 0]

NoMade == [phase |-> "none"]

NoCalc == [phase |-> "none"]

NoLedger == [fills |-> EmptyDict, reverts |-> EmptyDict]

NoCurve ==
  [cache |-> EmptyDict, out |-> [kind |-> "none", grid |-> <<>>, depthPoints |-> <<>>]]

\* MakerAgent.pending_action = None
NoPending == [type |-> "none", key |-> "", flag |-> FALSE, num |-> 0, str |-> ""]

\* MakerAgent._get_default_config: the entries the chat can change
DefaultConfig ==
  [is_paused |-> TRUE, max_trade_size_usd |-> 1000, daily_cap_usd |-> 10000,
   active_strategy_hash |-> "0x_default"]

NoChat == [config |-> DefaultConfig, pending_action |-> NoPending, msg |-> "", reply |-> ""]

RestInit ==
  /\ calc = NoCalc
  /\ ledger = NoLedger
  /\ curve = NoCurve
  /\ chat = NoChat

NoAgentOut ==
  [op |-> "none", maker |-> "", key |-> "", ret |-> -1, hit |-> FALSE,
   rejections |-> <<>>, raised |-> FALSE]

NoAgent ==
  [maker_nonces |-> EmptyDict, quote_cache |-> EmptyDict, daily_volumes |-> EmptyDict,
   out |-> NoAgentOut]

NoLast ==
  [kind |-> "none", intent |-> NoIntent, key |-> "", maker |-> "",
   at |-> 0, cap |-> -1, max_trade_size |-> NoMax, ttl |-> 0,
   paused |-> FALSE, chain_supported |-> TRUE, chain_active |-> TRUE,
   evicted |-> FALSE]

NoHist ==
  [curRet |-> [m \in Makers |-> -1], curNew |-> [m \in Makers |-> -1],
   retByKey |-> [k \in Keys |-> NoIntent],
   day |-> 0,
   accepted_today |-> [m \in Makers |-> [t \in Tokens |-> 0]],
   prev_cap_day |-> -1]

Init ==
  /\ maker_nonces = EmptyDict
  /\ quote_cache = EmptyDict
  /\ cache_expiry = EmptyDict
  /\ daily_volumes = EmptyDict
  /\ now = 0
  /\ last_volume_reset = UtcDate(0)
  /\ last = NoLast
  /\ hist = NoHist
  /\ pc = [h \in Handlers |-> "idle"]
  /\ loc = [h \in Handlers |-> NoLoc]
  /\ res = [h \in Handlers |-> NoRes]
  /\ enf = NoEnf
  /\ dump = NoDump
  /\ http = NoHttp
  /\ agent = NoAgent
  /\ made = NoMade
  /\ RestInit

\* the clock advances
Tick ==
  /\ now < MaxTime
  /\ now' = now + 1
  /\ UNCHANGED <<maker_nonces, quote_cache, cache_expiry, daily_volumes,
                 last_volume_reset, last, hist, pc, loc, res, enf, dump, http, agent, made, rest>>

\* a reset that does not look at the date
ResetVolumesAlways(vols, reset, today) == EmptyDict

\* _reset_daily_volumes_if_needed
ResetVolumes(vols, reset, today) == IF today # reset THEN EmptyDict ELSE vols

\* an entry that is dropped one second early
CacheHitEarly(cache, expiries, key, t) ==
  key \in DOMAIN cache /\ t + 1 < Get(expiries, key, 0)

\* an entry that is still served at the second it expires
CacheHitLate(cache, expiries, key, t) ==
  key \in DOMAIN cache /\ t <= Get(expiries, key, 0)

\* _get_cached_quote: is there a live entry under the key
CacheHit(cache, expiries, key, t) ==
  key \in DOMAIN cache /\ t < Get(expiries, key, 0)

\* _get_next_nonce: the value returned
NextNonce(nonces, maker) == Get(nonces, maker, 0)

\* a counter that is created but never incremented
BumpNonceLost(nonces, maker) == Put(nonces, maker, Get(nonces, maker, 0))

\* _get_next_nonce: the counter afterwards
BumpNonce(nonces, maker) == Put(nonces, maker, Get(nonces, maker, 0) + 1)

\* what the observer keeps of a response: the latest nonce returned for a
\* maker, the latest nonce newly issued for a maker, the latest accepted
\* intent returned under a key, the amounts accepted since the date changed,
\* the day of the call before if that call was rejected for the daily cap
Observe(h, key, resp, fresh, today) ==
  LET m == resp.maker
      h0 == [h EXCEPT !.prev_cap_day =
               IF last.kind = "rejected" /\ last.intent.reason = "EXCEEDS_DAILY_CAP"
               THEN UtcDate(last.at) ELSE -1]
      base == IF today # h.day
              THEN [h0 EXCEPT !.day = today,
                              !.accepted_today = [x \in Makers |-> [t \in Tokens |-> 0]]]
              ELSE h0
  IN IF resp.rejected THEN base
     ELSE LET h1 == [base EXCEPT !.curRet[m] = resp.nonce, !.retByKey[key] = resp]
          IN IF fresh
             THEN [h1 EXCEPT !.curNew[m] = resp.nonce,
                             !.accepted_today[m][resp.token_out] = @ + resp.amount_out]
             ELSE h1

\* generate_quote, the whole call
GenerateQuote(in) ==
  LET req == in.req
      cfg == in.cfg
      key == req.idempotency_key
      maker == cfg.maker_address
      today == UtcDate(now)
      vols0 == ResetVolumes(daily_volumes, last_volume_reset, today)
      hit == CacheHit(quote_cache, cache_expiry, key, now)
      evict == key \in DOMAIN quote_cache /\ ~hit
      cache0 == IF evict THEN Del(quote_cache, key) ELSE quote_cache
      expiry0 == IF evict THEN Del(cache_expiry, key) ELSE cache_expiry
      reason == GateReason(req, cfg, in.pricing, in.chain,
                           GetDailyVolume(vols0, maker, req.token_out))
      nonce == NextNonce(maker_nonces, maker)
      intent == BuildIntent(req, cfg, in.pricing, nonce, now)
      rejected == CreateRejectedIntent(req, cfg, reason)
      obs(kind, resp) ==
        [kind |-> kind, intent |-> resp, key |-> key, maker |-> maker, at |-> now,
         cap |-> IF kind = "accepted" THEN Get(cfg.daily_caps, req.token_out, -1) ELSE -1,
         max_trade_size |-> IF kind = "accepted" THEN cfg.max_trade_size ELSE NoMax,
         ttl |-> IF kind = "accepted" THEN cfg.default_ttl_sec ELSE 0,
         paused |-> cfg.paused,
         chain_supported |-> cfg.paused => req.chain_id \in supported_chains,
         chain_active |-> cfg.paused => in.chain.is_active,
         evicted |-> evict]
  IN /\ last_volume_reset' = today
     /\ UNCHANGED <<now, pc, loc, res, enf, dump, http, agent, made, rest>>
     /\ IF hit
        THEN /\ UNCHANGED <<maker_nonces, quote_cache, cache_expiry>>
             /\ daily_volumes' = vols0
             /\ last' = obs("cached", quote_cache[key])
             /\ hist' = Observe(hist, key, quote_cache[key], FALSE, today)
        ELSE IF reason = "RAISED"
        THEN /\ UNCHANGED maker_nonces
             /\ quote_cache' = cache0
             /\ cache_expiry' = expiry0
             /\ daily_volumes' = vols0
             /\ last' = obs("raised", NoIntent)
             /\ hist' = Observe(hist, key, rejected, FALSE, today)
        ELSE IF reason # ""
        THEN /\ UNCHANGED maker_nonces
             /\ quote_cache' = cache0
             /\ cache_expiry' = expiry0
             /\ daily_volumes' = vols0
             /\ last' = obs("rejected", rejected)
             /\ hist' = Observe(hist, key, rejected, FALSE, today)
        ELSE /\ nonce < MaxNonce
             /\ maker_nonces' = BumpNonce(maker_nonces, maker)
             /\ quote_cache' = Put(cache0, key, intent)
             /\ cache_expiry' = Put(expiry0, key, intent.expiry)
             /\ daily_volumes' = UpdateDailyVolume(vols0, maker, req.token_out,
                                                   intent.amount_out)
             /\ last' = obs("accepted", intent)
             /\ hist' = Observe(hist, key, intent, TRUE, today)

Quote == \E in \in Inputs : GenerateQuote(in)

Next == Tick \/ Quote

Spec == Init /\ [][Next]_vars

\* ------------------------------------------- interleaved handlers: SpecConc
\* Each handler serves one request.  generate_quote takes no lock, so another
\* handler may run between any two of its statements that touch the store;
\* each action below is one such statement (or a run of local ones).

\* the requests the handlers are given
ConcInputs ==
  { [Base("m1", k) EXCEPT !.req.amount = 2000,
                          !.cfg.daily_caps = Put(EmptyDict, "B", 2500)] : k \in Keys }
  \cup { Base("m1", "k1"), Base("m2", "k1"),
         [Base("m1", "k1") EXCEPT !.cfg.paused = TRUE] }

Running(h) == pc[h] \notin {"idle", "done"}

seqvars == <<last, hist, enf, dump, http, agent, made, rest>>

\* a handler receives a request
Start(h, in) ==
  /\ pc[h] = "idle"
  /\ LET over == \E g \in Handlers \ {h} : Running(g)
     IN loc' = [g \in Handlers |->
                  IF g = h THEN [NoLoc EXCEPT !.in = in, !.overlap = over]
                  ELSE IF Running(g) THEN [loc[g] EXCEPT !.overlap = TRUE]
                  ELSE loc[g]]
  /\ pc' = [pc EXCEPT ![h] = "reset"]
  /\ UNCHANGED <<maker_nonces, quote_cache, cache_expiry, daily_volumes,
                 last_volume_reset, now, res, seqvars>>

\* generate_quote line 496: _reset_daily_volumes_if_needed
StepReset(h) ==
  /\ pc[h] = "reset"
  /\ daily_volumes' = ResetVolumes(daily_volumes, last_volume_reset, UtcDate(now))
  /\ last_volume_reset' = UtcDate(now)
  /\ pc' = [pc EXCEPT ![h] = "lookup"]
  /\ UNCHANGED <<maker_nonces, quote_cache, cache_expiry, now, loc, res, seqvars>>

\* generate_quote lines 500-509: _get_cached_quote.  An entry without its
\* expiry counts as expired, and deleting the missing expiry raises KeyError.
StepLookup(h) ==
  LET key == loc[h].in.req.idempotency_key
  IN /\ pc[h] = "lookup"
     /\ UNCHANGED <<maker_nonces, daily_volumes, last_volume_reset, now, loc, seqvars>>
     /\ IF CacheHit(quote_cache, cache_expiry, key, now)
        THEN /\ res' = [res EXCEPT ![h] = [kind |-> "cached", intent |-> quote_cache[key]]]
             /\ pc' = [pc EXCEPT ![h] = "done"]
             /\ UNCHANGED <<quote_cache, cache_expiry>>
        ELSE IF key \in DOMAIN quote_cache
        THEN /\ quote_cache' = Del(quote_cache, key)
             /\ IF key \in DOMAIN cache_expiry
                THEN /\ cache_expiry' = Del(cache_expiry, key)
                     /\ pc' = [pc EXCEPT ![h] = "gates"]
                     /\ UNCHANGED res
                ELSE /\ UNCHANGED cache_expiry
                     /\ res' = [res EXCEPT ![h] = [kind |-> "raised", intent |-> NoIntent]]
                     /\ pc' = [pc EXCEPT ![h] = "done"]
        ELSE /\ pc' = [pc EXCEPT ![h] = "gates"]
             /\ UNCHANGED <<quote_cache, cache_expiry, res>>

\* generate_quote lines 511-668: the gates, with the one read of the volume
StepGates(h) ==
  LET in == loc[h].in
      reason == GateReason(in.req, in.cfg, in.pricing, in.chain,
                   GetDailyVolume(daily_volumes, in.cfg.maker_address, in.req.token_out))
  IN /\ pc[h] = "gates"
     /\ UNCHANGED <<maker_nonces, quote_cache, cache_expiry, daily_volumes,
                    last_volume_reset, now, loc, seqvars>>
     /\ IF reason = "RAISED"
        THEN /\ res' = [res EXCEPT ![h] = [kind |-> "raised", intent |-> NoIntent]]
             /\ pc' = [pc EXCEPT ![h] = "done"]
        ELSE IF reason # ""
        THEN /\ res' = [res EXCEPT ![h] =
                          [kind |-> "rejected",
                           intent |-> CreateRejectedIntent(in.req, in.cfg, reason)]]
             /\ pc' = [pc EXCEPT ![h] = "done"]
        ELSE /\ pc' = [pc EXCEPT ![h] = "nonce_read"]
             /\ UNCHANGED res

\* _get_next_nonce lines 365-367: create the counter, read the nonce
StepNonceRead(h) ==
  LET maker == loc[h].in.cfg.maker_address
  IN /\ pc[h] = "nonce_read"
     /\ NextNonce(maker_nonces, maker) < MaxNonce
     /\ maker_nonces' = Put(maker_nonces, maker, NextNonce(maker_nonces, maker))
     /\ loc' = [loc EXCEPT ![h].nonce = NextNonce(maker_nonces, maker)]
     /\ pc' = [pc EXCEPT ![h] = "nonce_load"]
     /\ UNCHANGED <<quote_cache, cache_expiry, daily_volumes, last_volume_reset,
                    now, res, seqvars>>

\* _get_next_nonce line 368, "+= 1": the load
StepNonceLoad(h) ==
  /\ pc[h] = "nonce_load"
  /\ loc' = [loc EXCEPT ![h].tmp = maker_nonces[loc[h].in.cfg.maker_address]]
  /\ pc' = [pc EXCEPT ![h] = "nonce_store"]
  /\ UNCHANGED <<maker_nonces, quote_cache, cache_expiry, daily_volumes,
                 last_volume_reset, now, res, seqvars>>

\* _get_next_nonce line 368, "+= 1": the store
StepNonceStore(h) ==
  /\ pc[h] = "nonce_store"
  /\ maker_nonces' = Put(maker_nonces, loc[h].in.cfg.maker_address, loc[h].tmp + 1)
  /\ pc' = [pc EXCEPT ![h] = "cache_put"]
  /\ UNCHANGED <<quote_cache, cache_expiry, daily_volumes, last_volume_reset,
                 now, loc, res, seqvars>>

\* generate_quote lines 673-705 and _cache_quote line 385: read the clock,
\* build the intent, store it under its key
StepCachePut(h) ==
  LET in == loc[h].in
      intent == BuildIntent(in.req, in.cfg, in.pricing, loc[h].nonce, now)
  IN /\ pc[h] = "cache_put"
     /\ loc' = [loc EXCEPT ![h].intent = intent]
     /\ quote_cache' = Put(quote_cache, in.req.idempotency_key, intent)
     /\ pc' = [pc EXCEPT ![h] = "expiry_put"]
     /\ UNCHANGED <<maker_nonces, cache_expiry, daily_volumes, last_volume_reset,
                    now, res, seqvars>>

\* _cache_quote line 386
StepExpiryPut(h) ==
  /\ pc[h] = "expiry_put"
  /\ cache_expiry' = Put(cache_expiry, loc[h].in.req.idempotency_key,
                         loc[h].intent.expiry)
  /\ pc' = [pc EXCEPT ![h] = "vol_load"]
  /\ UNCHANGED <<maker_nonces, quote_cache, daily_volumes, last_volume_reset,
                 now, loc, res, seqvars>>

\* _update_daily_volume lines 390-394, "+= amount": create the counter, load
StepVolLoad(h) ==
  LET maker == loc[h].in.cfg.maker_address
      token == loc[h].in.req.token_out
  IN /\ pc[h] = "vol_load"
     /\ daily_volumes' = UpdateDailyVolume(daily_volumes, maker, token, 0)
     /\ loc' = [loc EXCEPT ![h].tmp = GetDailyVolume(daily_volumes, maker, token),
                            ![h].day = last_volume_reset]
     /\ pc' = [pc EXCEPT ![h] = "vol_store"]
     /\ UNCHANGED <<maker_nonces, quote_cache, cache_expiry, last_volume_reset,
                    now, res, seqvars>>

\* _update_daily_volume line 394, the store, and the return of the intent.
\* The store goes to the row that was loaded: after a reset in between, that
\* row is no longer in the store and the addition is lost.
StepVolStore(h) ==
  LET maker == loc[h].in.cfg.maker_address
      token == loc[h].in.req.token_out
      row == Get(daily_volumes, maker, EmptyDict)
  IN /\ pc[h] = "vol_store"
     /\ daily_volumes' =
          IF last_volume_reset = loc[h].day
          THEN Put(daily_volumes, maker,
                   Put(row, token, loc[h].tmp + loc[h].intent.amount_out))
          ELSE daily_volumes
     /\ res' = [res EXCEPT ![h] = [kind |-> "accepted", intent |-> loc[h].intent]]
     /\ pc' = [pc EXCEPT ![h] = "done"]
     /\ UNCHANGED <<maker_nonces, quote_cache, cache_expiry, last_volume_reset,
                    now, loc, seqvars>>

NextConc ==
  \/ Tick
  \/ \E h \in Handlers, in \in ConcInputs : Start(h, in)
  \/ \E h \in Handlers : StepReset(h)
  \/ \E h \in Handlers : StepLookup(h)
  \/ \E h \in Handlers : StepGates(h)
  \/ \E h \in Handlers : StepNonceRead(h)
  \/ \E h \in Handlers : StepNonceLoad(h)
  \/ \E h \in Handlers : StepNonceStore(h)
  \/ \E h \in Handlers : StepCachePut(h)
  \/ \E h \in Handlers : StepExpiryPut(h)
  \/ \E h \in Handlers : StepVolLoad(h)
  \/ \E h \in Handlers : StepVolStore(h)

SpecConc == Init /\ [][NextConc]_vars

\* ------------------------------- strategyAgentNew/enforcer.py: SpecEnf
\* RejectionReason of strategyAgentNew/datatypes.py
EnfRejectionReason ==
  {"STALE_PRICING", "MAX_IMPACT_BPS_EXCEEDED", "MAX_TRADE_SIZE_EXCEEDED"}

\* DepthPointDto
Point(ain, aout, impact) ==
  [amountInRaw |-> ain, amountOutRaw |-> aout, impactBps |-> impact]

\* calculate_impact_and_fee_bps lines 67-86: the two points the loop ends with
RECURSIVE Walk(_, _, _, _, _)
Walk(points, i, below, ideal, sell_amount) ==
  IF i > Len(points) THEN <<below, ideal>>
  ELSE IF ideal.amountInRaw >= sell_amount THEN <<ideal, points[i]>>
  ELSE Walk(points, i + 1, ideal, points[i], sell_amount)

\* calculate_impact_and_fee_bps lines 88-91.  The two results are exact
\* quotients, kept as <<numerator, denominator>>; a zero denominator is the
\* ZeroDivisionError of the source.
CalculateImpact(sell_amount, points) ==
  LET w == Walk(points, 1, Point(0, 0, 0), Point(0, 0, 0), sell_amount)
      below == w[1]
      ideal == w[2]
      den == ideal.amountInRaw - below.amountInRaw
      slope == (ideal.impactBps - below.impactBps) * (sell_amount - below.amountInRaw)
  IN [raised |-> den = 0,
      impact_bps |-> <<below.impactBps * den + slope, den>>,
      buy_amount |-> <<below.amountOutRaw * den + slope, den>>]

\* q > n for a quotient q = <<num, den>>, den # 0
QGreater(q, n) == IF q[2] > 0 THEN q[1] > n * q[2] ELSE q[1] < n * q[2]

\* check_policy_enforcement: the pricing snapshot's stale flag after line 130
EnfStale(in) == in.stale \/ (in.nowMs - in.asOfMs > in.ttlSec * 1000)

\* check_policy_enforcement: the list of rejections
EnfRejections(in) ==
  LET c == CalculateImpact(in.sellAmount, in.depthPoints)
  IN (IF EnfStale(in) /\ in.rejectIfStale THEN <<"STALE_PRICING">> ELSE <<>>)
     \o (IF QGreater(c.impact_bps, in.maxImpactBps)
         THEN <<"MAX_IMPACT_BPS_EXCEEDED">> ELSE <<>>)
     \o (IF in.maxTradeRaw > 0 /\ in.sellAmount > in.maxTradeRaw
         THEN <<"MAX_TRADE_SIZE_EXCEEDED">> ELSE <<>>)

NoOut ==
  [raised |-> FALSE, decision |-> "", reasonCodes |-> <<>>, buyAmount |-> <<0, 1>>,
   feeAmount |-> 0, expiry |-> 0, stale |-> FALSE]

\* process_quote_request
ProcessQuoteRequest(in) ==
  LET c == CalculateImpact(in.sellAmount, in.depthPoints)
      rejections == EnfRejections(in)
  IN IF c.raised THEN [NoOut EXCEPT !.raised = TRUE, !.stale = EnfStale(in)]
     ELSE [raised |-> FALSE,
           decision |-> IF rejections = <<>> THEN "ACCEPT" ELSE "REJECT",
           reasonCodes |-> IF rejections = <<>> THEN <<"OK">> ELSE rejections,
           buyAmount |-> <<c.buy_amount[1] * (BpsDenom - in.spreadBps),
                           c.buy_amount[2] * BpsDenom>>,
           feeAmount |-> (in.feeBps * in.sellAmount) \div BpsDenom,
           expiry |-> in.asOfMs + in.ttlSec,
           stale |-> EnfStale(in)]

\* get_response of flaskapp.py: the HTTP status of the answer; an exception
\* that is neither KeyError nor ValueError ends in the last handler
HttpStatus(out) == IF out.raised THEN 500 ELSE 200

\* the depth curves: empty, one point, two points, three points, two points
\* out of order, the same point twice
Curves ==
  LET p1 == Point(20, 10, 18)
      p2 == Point(50, 26, 42)
      p3 == Point(80, 30, 90)
  IN {<<>>, <<p1>>, <<p1, p2>>, <<p1, p2, p3>>, <<p2, p1>>, <<p1, p1>>}

EnfInputs ==
  [sellAmount : {10, 20, 30, 50, 60, 80, 90}, depthPoints : Curves,
   asOfMs : {4000}, nowMs : {4000, 30000}, stale : BOOLEAN,
   ttlSec : {15}, rejectIfStale : BOOLEAN, maxImpactBps : {20, 80},
   maxTradeRaw : {0, 20}, spreadBps : {20}, feeBps : {10},
   confidenceScore : {80, 90}, minConfidenceScore : {85}]

InitEnf ==
  /\ maker_nonces = EmptyDict
  /\ quote_cache = EmptyDict
  /\ cache_expiry = EmptyDict
  /\ daily_volumes = EmptyDict
  /\ now = 0
  /\ last_volume_reset = UtcDate(0)
  /\ last = NoLast
  /\ hist = NoHist
  /\ pc = [h \in Handlers |-> "idle"]
  /\ loc = [h \in Handlers |-> NoLoc]
  /\ res = [h \in Handlers |-> NoRes]
  /\ enf \in {[phase |-> "request", in |-> i, out |-> NoOut] : i \in EnfInputs}
  /\ dump = NoDump
  /\ http = NoHttp
  /\ agent = NoAgent
  /\ made = NoMade
  /\ RestInit

\* the /intent endpoint hands the request to process_quote_request
Process ==
  /\ enf.phase = "request"
  /\ enf' = [phase |-> "response", in |-> enf.in, out |-> ProcessQuoteRequest(enf.in)]
  /\ UNCHANGED <<maker_nonces, quote_cache, cache_expiry, daily_volumes,
                 last_volume_reset, now, last, hist, pc, loc, res, dump, http, agent, made, rest>>

NextEnf == Process

SpecEnf == InitEnf /\ [][NextEnf]_vars

\* ---------------------------------------------- strategy-agent/dump.py: SpecDump
\* RejectionReason of dump.py
DumpRejectionReason ==
  {"MAKER_PAUSED", "INSUFFICIENT_BUDGET", "STALE_PRICING", "PAIR_NOT_ALLOWED",
   "STRATEGY_INACTIVE", "INSUFFICIENT_ALLOWANCE", "MAX_TRADE_SIZE_EXCEEDED",
   "DAILY_CAP_EXCEEDED"}

\* str.lower on the token names in use
Lower(t) == IF t = "A" THEN "a" ELSE IF t = "B" THEN "b" ELSE t

\* the f-string key of a pair in daily_volumes
PairKey(token_in, token_out) == <<Lower(token_in), Lower(token_out)>>

\* datetime.now().strftime("%Y-%m-%d")
DumpToday(t) == t \div DayLen

SamePair(row, req) ==
  Lower(row.tokenIn) = Lower(req.tokenIn) /\ Lower(row.tokenOut) = Lower(req.tokenOut)

\* StrategyAgentState.get_daily_volume: the table after the call, which
\* creates the maker's row and the pair's entry and restarts an entry of
\* another day
TouchDailyVolume(vols, maker, req, t) ==
  LET row == Get(vols, maker, EmptyDict)
      pk == PairKey(req.tokenIn, req.tokenOut)
      fresh == [date |-> DumpToday(t), volume |-> 0]
      entry == Get(row, pk, fresh)
  IN Put(vols, maker, Put(row, pk, IF entry.date # DumpToday(t) THEN fresh ELSE entry))

\* StrategyAgentState.get_daily_volume: the value returned
DumpDailyVolume(vols, maker, req, t) ==
  TouchDailyVolume(vols, maker, req, t)[maker][PairKey(req.tokenIn, req.tokenOut)].volume

\* the caps of the request's pair, in the order of dailyCaps
RECURSIVE MatchingCaps(_, _)
MatchingCaps(caps, req) ==
  IF caps = <<>> THEN <<>>
  ELSE (IF SamePair(Head(caps), req) THEN <<Head(caps).cap>> ELSE <<>>)
       \o MatchingCaps(Tail(caps), req)

\* a pair check that does not look at the length of the list
DumpPolicyReasonEmptyListRefuses(req, cfg, vols, t) ==
  LET pair_allowed == \E i \in 1..Len(cfg.allowedPairs) : SamePair(cfg.allowedPairs[i], req)
      caps == MatchingCaps(cfg.dailyCaps, req)
      current_volume == DumpDailyVolume(vols, cfg.maker, req, t)
  IN IF cfg.paused THEN "MAKER_PAUSED"
     ELSE IF ~pair_allowed THEN "PAIR_NOT_ALLOWED"
     ELSE IF cfg.maxTradeSize > 0 /\ req.amount > cfg.maxTradeSize
     THEN "MAX_TRADE_SIZE_EXCEEDED"
     ELSE IF \E i \in 1..Len(caps) : current_volume + req.amount > caps[i]
     THEN "DAILY_CAP_EXCEEDED"
     ELSE ""

\* check_policy_enforcement of dump.py: the reason, "" for None
DumpPolicyReason(req, cfg, vols, t) ==
  LET pair_allowed == \E i \in 1..Len(cfg.allowedPairs) : SamePair(cfg.allowedPairs[i], req)
      caps == MatchingCaps(cfg.dailyCaps, req)
      current_volume == DumpDailyVolume(vols, cfg.maker, req, t)
  IN IF cfg.paused THEN "MAKER_PAUSED"
     ELSE IF ~pair_allowed /\ Len(cfg.allowedPairs) > 0 THEN "PAIR_NOT_ALLOWED"
     ELSE IF cfg.maxTradeSize > 0 /\ req.amount > cfg.maxTradeSize
     THEN "MAX_TRADE_SIZE_EXCEEDED"
     ELSE IF \E i \in 1..Len(caps) : current_volume + req.amount > caps[i]
     THEN "DAILY_CAP_EXCEEDED"
     ELSE ""

\* check_policy_enforcement of dump.py reads the volume, and so touches the
\* table, when it gets as far as a cap of the request's pair
DumpPolicyTouches(req, cfg) ==
  /\ ~cfg.paused
  /\ ~(Len(cfg.allowedPairs) > 0
       /\ ~\E i \in 1..Len(cfg.allowedPairs) : SamePair(cfg.allowedPairs[i], req))
  /\ ~(cfg.maxTradeSize > 0 /\ req.amount > cfg.maxTradeSize)
  /\ MatchingCaps(cfg.dailyCaps, req) # <<>>

\* check_on_chain_feasibility: the reason, "" for None
RECURSIVE FirstAllowance(_, _)
FirstAllowance(allowances, token) ==
  IF allowances = <<>> THEN -1
  ELSE IF Lower(Head(allowances).token) = Lower(token) THEN Head(allowances).allowance
  ELSE FirstAllowance(Tail(allowances), token)

DumpFeasibilityReason(req, chain, amount_out) ==
  LET token_out_allowance == FirstAllowance(chain.allowances, req.tokenOut)
  IN IF chain.strategyStatus # "ACTIVE" THEN "STRATEGY_INACTIVE"
     ELSE IF chain.balance < amount_out THEN "INSUFFICIENT_BUDGET"
     ELSE IF token_out_allowance = -1 \/ token_out_allowance < amount_out
     THEN "INSUFFICIENT_ALLOWANCE"
     ELSE ""

\* StrategyAgentState.get_cached_quote returns the entry
DumpCacheHit(cache, key, t) ==
  key # "" /\ key \in DOMAIN cache /\ cache[key].expiry > t

\* StrategyAgentState.get_cached_quote: the cache after the call
DumpCacheAfterLookup(cache, key, t) ==
  IF key # "" /\ key \in DOMAIN cache /\ ~(cache[key].expiry > t)
  THEN Del(cache, key) ELSE cache

\* StrategyAgentState.get_next_nonce: the counters after the call; the nonce
\* returned is the new value of the counter
DumpBumpNonce(nonces, maker) == Put(nonces, maker, Get(nonces, maker, 0) + 1)

\* synthesize_quote_intent: the strategy hash
DumpStrategyHash(cfg, chain) ==
  IF chain.strategyHash = "" \/ chain.strategyHash = "0x0"
  THEN IF cfg.strategyHashes # <<>> THEN cfg.strategyHashes[1] ELSE "0x0"
  ELSE chain.strategyHash

\* synthesize_quote_intent: the spread
DumpSpreadBps(cfg) == IF cfg.spreadPresets # <<>> THEN cfg.spreadPresets[1] ELSE 50

\* synthesize_quote_intent: the TTL
DumpTtlSec(cfg) ==
  IF cfg.ttlRanges.maxSec > cfg.ttlRanges.minSec
  THEN (cfg.ttlRanges.minSec + cfg.ttlRanges.maxSec) \div 2
  ELSE IF cfg.ttlRanges.minSec > 0 THEN cfg.ttlRanges.minSec
  ELSE 300

\* synthesize_quote_intent past the cache lookup: the intent built
DumpBuildIntent(req, cfg, pricing, chain, nonce, t) ==
  LET spread_bps == DumpSpreadBps(cfg)
      mid_price == pricing.midPrice
      amount_out == IF req.side = "sell"
                    THEN (req.amount * mid_price * (BpsDenom - spread_bps)) \div BpsDenom
                    ELSE req.amount \div mid_price
      amount_in == IF req.side = "sell" THEN req.amount
                   ELSE (amount_out * mid_price * (BpsDenom + spread_bps)) \div BpsDenom
  IN [maker |-> cfg.maker, tokenIn |-> req.tokenIn, tokenOut |-> req.tokenOut,
      amountIn |-> amount_in, amountOut |-> amount_out,
      strategyHash |-> DumpStrategyHash(cfg, chain), nonce |-> nonce,
      expiry |-> t + DumpTtlSec(cfg), minOutNet |-> (amount_out * 99) \div 100,
      reason |-> "", idempotencyKey |-> req.idempotencyKey]

\* process_quote_request of dump.py, the whole call
DumpProcessQuoteRequest(in) ==
  LET req == in.req
      cfg == in.cfg
      key == req.idempotencyKey
      vols1 == IF DumpPolicyTouches(req, cfg)
               THEN TouchDailyVolume(dump.daily_volumes, cfg.maker, req, now)
               ELSE dump.daily_volumes
      policy_reason == DumpPolicyReason(req, cfg, dump.daily_volumes, now)
      hit == DumpCacheHit(dump.quote_cache, key, now)
      cache1 == DumpCacheAfterLookup(dump.quote_cache, key, now)
      nonces1 == IF hit THEN dump.maker_nonces
                 ELSE DumpBumpNonce(dump.maker_nonces, cfg.maker)
      intent == IF hit THEN dump.quote_cache[key]
                ELSE DumpBuildIntent(req, cfg, in.pricing, in.chain,
                                     nonces1[cfg.maker], now)
      cache2 == IF ~hit /\ key # "" THEN Put(cache1, key, intent) ELSE cache1
      feasibility_reason == DumpFeasibilityReason(req, in.chain, intent.amountOut)
      marked == [intent EXCEPT !.reason = feasibility_reason]
      rejected(reason) ==
        [kind |-> "rejected", intent |-> NoDumpIntent, reason |-> reason, key |-> key,
         fresh |-> FALSE]
  IN /\ UNCHANGED <<maker_nonces, quote_cache, cache_expiry, daily_volumes,
                    last_volume_reset, now, last, hist, pc, loc, res, enf, http, agent, made, rest>>
     /\ IF in.pricing.stale
        THEN dump' = [dump EXCEPT !.out = rejected("STALE_PRICING")]
        ELSE IF policy_reason # ""
        THEN dump' = [dump EXCEPT !.daily_volumes = vols1,
                                  !.out = rejected(policy_reason)]
        ELSE /\ hit \/ Get(dump.maker_nonces, cfg.maker, 0) < MaxNonce
             /\ IF feasibility_reason # ""
                THEN dump' = [maker_nonces |-> nonces1,
                              quote_cache |-> IF key \in DOMAIN cache2
                                              THEN Put(cache2, key, marked) ELSE cache2,
                              daily_volumes |-> vols1,
                              out |-> rejected(feasibility_reason)]
                ELSE dump' = [maker_nonces |-> nonces1,
                              quote_cache |-> cache2,
                              daily_volumes |-> vols1,
                              out |-> [kind |-> "intent", intent |-> intent,
                                       reason |-> "", key |-> key, fresh |-> ~hit]]

\* the requests given to process_quote_request of dump.py
DumpBase(m, k) ==
  [req |-> [tokenIn |-> "A", tokenOut |-> "B", amount |-> 1000, side |-> "sell",
            idempotencyKey |-> k],
   cfg |-> [maker |-> m, paused |-> FALSE,
            allowedPairs |-> <<[tokenIn |-> "a", tokenOut |-> "b"]>>,
            maxTradeSize |-> 1500,
            dailyCaps |-> <<[tokenIn |-> "a", tokenOut |-> "b", cap |-> 2500]>>,
            ttlRanges |-> [minSec |-> 1, maxSec |-> 1],
            spreadPresets |-> <<100>>, strategyHashes |-> <<"0xs1">>],
   pricing |-> [stale |-> FALSE, midPrice |-> 2],
   chain |-> [strategyHash |-> "0xs1", balance |-> 100000,
              allowances |-> <<[token |-> "b", allowance |-> 100000]>>,
              strategyStatus |-> "ACTIVE"]]

DumpInputs ==
  LET b == DumpBase("m1", "k1")
  IN { DumpBase(m, k) : m \in Makers, k \in Keys }
     \cup { [b EXCEPT !.cfg.paused = TRUE],
            [b EXCEPT !.req.tokenOut = "A"],
            [b EXCEPT !.req.amount = 2000],
            [b EXCEPT !.req.amount = 3000, !.cfg.maxTradeSize = 0],
            [b EXCEPT !.pricing.stale = TRUE],
            [b EXCEPT !.chain.strategyStatus = "INACTIVE"],
            [b EXCEPT !.chain.balance = 500],
            [b EXCEPT !.chain.allowances = <<>>],
            [b EXCEPT !.req.side = "buy"],
            [b EXCEPT !.cfg.ttlRanges = [minSec |-> 0, maxSec |-> 0],
                      !.cfg.spreadPresets = <<>>, !.cfg.dailyCaps = <<>>],
            [b EXCEPT !.req.idempotencyKey = "", !.chain.strategyHash = ""],
            [b EXCEPT !.req.idempotencyKey = "", !.chain.strategyStatus = "DOCKED"],
            [b EXCEPT !.req.tokenIn = "B", !.req.tokenOut = "A"],
            [b EXCEPT !.req.tokenIn = "B", !.req.tokenOut = "A", !.cfg.allowedPairs = <<>>],
            [b EXCEPT !.cfg.allowedPairs = <<>>, !.cfg.dailyCaps = <<>>] }

DumpQuote == \E in \in DumpInputs : DumpProcessQuoteRequest(in)

NextDump == Tick \/ DumpQuote

SpecDump == Init /\ [][NextDump]_vars

\* ------------------------------------- the Flask endpoints: SpecHttp
\* the shapes of a JSON body posted to /intent (strategyAgentNew)
IntentShapes ==
  {"ok", "no_body", "missing_pricingSnapshot", "missing_strategy",
   "missing_sellAmount", "sellAmount_not_a_number", "missing_params",
   "asOfMs_string"}

\* the shapes of a JSON body posted to /quote (strategyAgentOld)
QuoteShapes ==
  {"ok", "no_body", "missing_quoteRequest", "quoteRequest_missing_chainId",
   "chainSnapshot_missing_chainId"}

\* ingest_strategy_intent_request: the exception it raises for a body, or ""
IngestRaises(shape) ==
  CASE shape = "missing_pricingSnapshot" -> "KeyError"
    [] shape = "missing_strategy" -> "KeyError"
    [] shape = "missing_sellAmount" -> "KeyError"
    [] shape = "sellAmount_not_a_number" -> "ValueError"
    [] OTHER -> ""

\* what process_quote_request of strategyAgentNew raises for an ingested
\* request, or "": a params object without ttlSec is a KeyError, a snapshot
\* time that is a string cannot be subtracted from the clock (TypeError),
\* a division by zero in the curve evaluation is a ZeroDivisionError
EnfProcessRaises(shape, in) ==
  CASE shape = "missing_params" -> "KeyError"
    [] shape = "asOfMs_string" -> "TypeError"
    [] OTHER -> IF ProcessQuoteRequest(in).raised THEN "ZeroDivisionError" ELSE ""

NoBody == [kind |-> "none", decision |-> "", rejected |-> FALSE, quoteIntent |-> FALSE]

ErrorBody == [NoBody EXCEPT !.kind = "error"]

\* get_response of strategyAgentNew/flaskapp.py: status and body
GetResponse(shape, in) ==
  LET ingest == IngestRaises(shape)
      process == EnfProcessRaises(shape, in)
      raised == IF ingest # "" THEN ingest ELSE process
      out == ProcessQuoteRequest(in)
  IN IF shape = "no_body" THEN [status |-> 400, body |-> ErrorBody]
     ELSE IF raised \in {"KeyError", "ValueError"}
     THEN [status |-> 400, body |-> ErrorBody]
     ELSE IF raised # "" THEN [status |-> 500, body |-> ErrorBody]
     ELSE [status |-> 200,
           body |-> [kind |-> "intent", decision |-> out.decision,
                     rejected |-> out.decision = "REJECT", quoteIntent |-> TRUE]]

\* get_quote of strategyAgentOld/flaskapp.py: status and body, given what
\* process_quote_request returned as rejections
GetQuote(shape, rejections) ==
  IF shape \in {"no_body", "missing_quoteRequest"}
  THEN [status |-> 400, body |-> ErrorBody]
  ELSE IF shape = "quoteRequest_missing_chainId"
  THEN [status |-> 500, body |-> ErrorBody]
  ELSE IF shape = "chainSnapshot_missing_chainId"
  THEN [status |-> 400, body |-> ErrorBody]
  ELSE IF rejections # <<>>
  THEN [status |-> 200,
        body |-> [kind |-> "quote", decision |-> "", rejected |-> FALSE,
                  quoteIntent |-> TRUE]]
  ELSE [status |-> 200,
        body |-> [kind |-> "quote", decision |-> "", rejected |-> TRUE,
                  quoteIntent |-> FALSE]]

\* the requests the /intent endpoint is given
HttpEnfInputs ==
  [sellAmount : {10, 30}, depthPoints : {<<>>, <<Point(20, 10, 18), Point(50, 26, 42)>>},
   asOfMs : {4000}, nowMs : {4000, 30000}, stale : {FALSE},
   ttlSec : {15}, rejectIfStale : BOOLEAN, maxImpactBps : {20},
   maxTradeRaw : {0, 20}, spreadBps : {20}, feeBps : {10}]

\* the rejection lists process_quote_request hands to get_quote
QuoteRejections == {<<>>, <<"MAKER_PAUSED">>, <<"MAKER_PAUSED", "PAIR_NOT_ALLOWED">>}

HttpRequests ==
  {[phase |-> "request", endpoint |-> "intent", shape |-> sh, in |-> i,
    rejections |-> <<>>, status |-> 0, body |-> NoBody] :
     sh \in IntentShapes, i \in HttpEnfInputs}
  \cup
  {[phase |-> "request", endpoint |-> "quote", shape |-> sh,
    in |-> CHOOSE i \in HttpEnfInputs : TRUE,
    rejections |-> r, status |-> 0, body |-> NoBody] :
     sh \in QuoteShapes, r \in QuoteRejections}

InitHttp ==
  /\ maker_nonces = EmptyDict
  /\ quote_cache = EmptyDict
  /\ cache_expiry = EmptyDict
  /\ daily_volumes = EmptyDict
  /\ now = 0
  /\ last_volume_reset = UtcDate(0)
  /\ last = NoLast
  /\ hist = NoHist
  /\ pc = [h \in Handlers |-> "idle"]
  /\ loc = [h \in Handlers |-> NoLoc]
  /\ res = [h \in Handlers |-> NoRes]
  /\ enf = NoEnf
  /\ dump = NoDump
  /\ http \in HttpRequests
  /\ agent = NoAgent
  /\ made = NoMade
  /\ RestInit

nothttp == <<maker_nonces, quote_cache, cache_expiry, daily_volumes,
             last_volume_reset, now, last, hist, pc, loc, res, enf, dump, agent,
             made, rest>>

\* POST /intent
PostIntent ==
  /\ http.phase = "request"
  /\ http.endpoint = "intent"
  /\ LET r == GetResponse(http.shape, http.in)
     IN http' = [http EXCEPT !.phase = "response", !.status = r.status,
                             !.body = r.body]
  /\ UNCHANGED nothttp

\* POST /quote
PostQuote ==
  /\ http.phase = "request"
  /\ http.endpoint = "quote"
  /\ LET r == GetQuote(http.shape, http.rejections)
     IN http' = [http EXCEPT !.phase = "response", !.status = r.status,
                             !.body = r.body]
  /\ UNCHANGED nothttp

NextHttp == PostIntent \/ PostQuote

SpecHttp == InitHttp /\ [][NextHttp]_vars

\* ------------------- strategy-agent/datatypes.py and enforcer.py: SpecAgent
\* StrategyAgentState.get_next_nonce: the counters after the call
AgentBumpNonce(nonces, maker) == Put(nonces, maker, Get(nonces, maker, 0) + 1)

\* StrategyAgentState.get_next_nonce: the value returned
AgentNextNonce(nonces, maker) == AgentBumpNonce(nonces, maker)[maker]

\* StrategyAgentState.get_cached_quote returns the entry
AgentCacheHit(cache, key, t) ==
  key # "" /\ key \in DOMAIN cache /\ cache[key].expiry > t

\* StrategyAgentState.get_cached_quote: the cache after the call
AgentCacheAfterLookup(cache, key, t) ==
  IF key # "" /\ key \in DOMAIN cache /\ ~(cache[key].expiry > t)
  THEN Del(cache, key) ELSE cache

\* StrategyAgentState.cache_quote: the cache after the call
AgentCacheQuote(cache, key, intent) ==
  IF key # "" THEN Put(cache, key, intent) ELSE cache

\* StrategyAgentState.add_daily_volume: whether it raises
\* DailyCapExceededError and the table after the call; a cap of -1 stands
\* for None
AddDailyVolume(vols, maker, token_in, token_out, amount, cap, t) ==
  LET row == Get(vols, maker, EmptyDict)
      pk == PairKey(token_in, token_out)
      fresh == [date |-> DumpToday(t), volume |-> 0]
      found == Get(row, pk, fresh)
      entry == IF found.date # DumpToday(t) THEN fresh ELSE found
      new_volume == entry.volume + amount
  IN IF cap # -1 /\ new_volume > cap
     THEN [raised |-> TRUE, vols |-> Put(vols, maker, Put(row, pk, entry))]
     ELSE [raised |-> FALSE,
           vols |-> Put(vols, maker, Put(row, pk, [entry EXCEPT !.volume = new_volume]))]

\* check_policy_enforcement: the first cap of dailyCaps whose tokens are
\* those of the request, letter for letter; -1 when there is none
RECURSIVE AgentFirstCap(_, _)
AgentFirstCap(caps, req) ==
  IF caps = <<>> THEN -1
  ELSE IF Head(caps).tokenIn = req.tokenIn /\ Head(caps).tokenOut = req.tokenOut
  THEN Head(caps).cap
  ELSE AgentFirstCap(Tail(caps), req)

\* check_policy_enforcement of strategy-agent/enforcer.py: the list of
\* rejections, the table of volumes after the call, and whether the call
\* raised (RejectionReason has no REPEATED_IDEMPOTENCY_KEY attribute)
AgentCheckPolicy(req, cfg, st, t) ==
  LET pair_allowed == \E i \in 1..Len(cfg.allowedPairs) : SamePair(cfg.allowedPairs[i], req)
      cap == AgentFirstCap(cfg.dailyCaps, req)
      capped == cap # -1 /\ cap > 0
      added == AddDailyVolume(st.daily_volumes, cfg.maker, req.tokenIn, req.tokenOut,
                              req.amount, cap, t)
      rejections ==
        (IF cfg.paused THEN <<"MAKER_PAUSED">> ELSE <<>>)
        \o (IF ~pair_allowed /\ Len(cfg.allowedPairs) > 0
            THEN <<"PAIR_NOT_ALLOWED">> ELSE <<>>)
        \o (IF cfg.maxTradeSize > 0 /\ req.amount > cfg.maxTradeSize
            THEN <<"MAX_TRADE_SIZE_EXCEEDED">> ELSE <<>>)
        \o (IF capped /\ added.raised THEN <<"DAILY_CAP_EXCEEDED">> ELSE <<>>)
      repeated == req.idempotencyKey # "" /\ req.idempotencyKey \in DOMAIN st.quote_cache
  IN [rejections |-> IF repeated THEN <<>> ELSE rejections,
      raised |-> repeated,
      vols |-> IF capped THEN added.vols ELSE st.daily_volumes]

\* the requests and policies given to check_policy_enforcement
AgentPolicyInputs ==
  [req : [tokenIn : {"A"}, tokenOut : {"B"}, amount : {1000, 2000},
          idempotencyKey : {"", "k1"}],
   cfg : [maker : {"m1"}, paused : BOOLEAN,
          allowedPairs : {<<>>, <<[tokenIn |-> "b", tokenOut |-> "a"]>>},
          maxTradeSize : {0, 1500},
          dailyCaps : {<<>>, <<[tokenIn |-> "A", tokenOut |-> "B", cap |-> 2500]>>,
                       <<[tokenIn |-> "A", tokenOut |-> "B", cap |-> 0]>>}]]

notagent == <<maker_nonces, quote_cache, cache_expiry, daily_volumes,
              last_volume_reset, now, last, hist, pc, loc, res, enf, dump, http,
              made, rest>>

\* state.get_next_nonce(maker)
GetNextNonce ==
  \E m \in Makers :
    /\ Get(agent.maker_nonces, m, 0) < MaxNonce
    /\ agent' = [agent EXCEPT
         !.maker_nonces = AgentBumpNonce(agent.maker_nonces, m),
         !.out = [NoAgentOut EXCEPT !.op = "get_next_nonce", !.maker = m,
                                    !.ret = AgentNextNonce(agent.maker_nonces, m)]]
    /\ UNCHANGED notagent

\* state.get_cached_quote(key)
GetCachedQuote ==
  \E k \in {"", "k1"} :
    /\ agent' = [agent EXCEPT
         !.quote_cache = AgentCacheAfterLookup(agent.quote_cache, k, now),
         !.out = [NoAgentOut EXCEPT
                    !.op = "get_cached_quote", !.key = k,
                    !.hit = AgentCacheHit(agent.quote_cache, k, now),
                    !.ret = IF AgentCacheHit(agent.quote_cache, k, now)
                            THEN agent.quote_cache[k].nonce ELSE -1]]
    /\ UNCHANGED notagent

\* state.cache_quote(key, intent) with an intent that carries the maker's
\* latest nonce and expires one second from now
CacheQuote ==
  \E k \in {"", "k1"} :
    /\ "m1" \in DOMAIN agent.maker_nonces
    /\ agent' = [agent EXCEPT
         !.quote_cache = AgentCacheQuote(agent.quote_cache, k,
                           [nonce |-> agent.maker_nonces["m1"], expiry |-> now + 1]),
         !.out = [NoAgentOut EXCEPT !.op = "cache_quote", !.key = k]]
    /\ UNCHANGED notagent

\* check_policy_enforcement(quote_request, maker_config)
CheckPolicyEnforcement ==
  \E in \in AgentPolicyInputs :
    LET r == AgentCheckPolicy(in.req, in.cfg, agent, now)
    IN /\ agent' = [agent EXCEPT
            !.daily_volumes = r.vols,
            !.out = [NoAgentOut EXCEPT
                       !.op = "check_policy_enforcement", !.maker = in.cfg.maker,
                       !.key = in.req.idempotencyKey,
                       !.rejections = r.rejections, !.raised = r.raised]]
       /\ UNCHANGED notagent

\* state.add_daily_volume(maker, token_in, token_out, amount) when an
\* accepted intent is committed
CommitDailyVolume ==
  LET r == AddDailyVolume(agent.daily_volumes, "m1", "A", "B", 1000, -1, now)
  IN /\ r.vols["m1"][PairKey("A", "B")].volume <= MaxVolume
     /\ agent' = [agent EXCEPT
          !.daily_volumes = r.vols,
          !.out = [NoAgentOut EXCEPT !.op = "add_daily_volume", !.maker = "m1"]]
     /\ UNCHANGED notagent

\* the clock advances
AgentTick ==
  /\ now < MaxTime
  /\ now' = now + 1
  /\ UNCHANGED <<maker_nonces, quote_cache, cache_expiry, daily_volumes,
                 last_volume_reset, last, hist, pc, loc, res, enf, dump, http, agent, made, rest>>

NextAgent ==
  \/ AgentTick
  \/ GetNextNonce
  \/ GetCachedQuote
  \/ CacheQuote
  \/ CheckPolicyEnforcement
  \/ CommitDailyVolume

SpecAgent == Init /\ [][NextAgent]_vars

\* ------------------------------- QuoteRequest.__post_init__: SpecKey
\* _utc_timestamp()[:19]: an ISO timestamp cut after the seconds
Timestamp19(ts) == ts.sec

\* hashlib.sha256(key_data.encode()).hexdigest()[:16], taken to be free of
\* collisions: equal digests for equal key data only
Sha256Prefix(key_data) == <<"sha256", key_data>>

\* QuoteRequest.__post_init__: the key derived when none is supplied
DerivedKey(r) ==
  Sha256Prefix(<<r.chain_id, r.side, r.token_in, r.token_out, r.amount, r.taker,
                 Timestamp19(r.timestamp)>>)

\* QuoteRequest.__post_init__; "" stands for None
PostInit(r) ==
  [r EXCEPT !.recipient = IF r.recipient = "" THEN r.taker ELSE r.recipient,
            !.idempotency_key = IF r.idempotency_key = ""
                                THEN DerivedKey(r)
                                ELSE <<"given", r.idempotency_key>>]

\* the arguments of QuoteRequest(...), the timestamp being the time of
\* construction in seconds and microseconds
QuoteRequestArgs ==
  [chain_id : {56}, side : {"BUY", "SELL"}, token_in : {"A"}, token_out : {"B"},
   amount : {1000, 2000}, taker : {"t1", "t2"}, recipient : {""},
   idempotency_key : {"", "k1"},
   timestamp : [sec : 0..MaxTime, usec : {0, 500}]]

InitKey ==
  /\ maker_nonces = EmptyDict
  /\ quote_cache = EmptyDict
  /\ cache_expiry = EmptyDict
  /\ daily_volumes = EmptyDict
  /\ now = 0
  /\ last_volume_reset = UtcDate(0)
  /\ last = NoLast
  /\ hist = NoHist
  /\ pc = [h \in Handlers |-> "idle"]
  /\ loc = [h \in Handlers |-> NoLoc]
  /\ res = [h \in Handlers |-> NoRes]
  /\ enf = NoEnf
  /\ dump = NoDump
  /\ http = NoHttp
  /\ agent = NoAgent
  /\ made \in {[phase |-> "args", a0 |-> x, b0 |-> y, a |-> x, b |-> y] :
                 x \in QuoteRequestArgs, y \in QuoteRequestArgs}
  /\ RestInit

\* the two QuoteRequest objects are constructed
Construct ==
  /\ made.phase = "args"
  /\ made' = [made EXCEPT !.phase = "made",
                          !.a = PostInit(made.a0), !.b = PostInit(made.b0)]
  /\ UNCHANGED <<maker_nonces, quote_cache, cache_expiry, daily_volumes,
                 last_volume_reset, now, last, hist, pc, loc, res, enf, dump, http,
                 agent, rest>>

NextKey == Construct

SpecKey == InitKey /\ [][NextKey]_vars

\* ------------------------------ _calculate_amounts and the gates: SpecCalc
\* _calculate_amounts with its quotients kept exact, as <<numerator,
\* denominator>>: spread_multiplier = 1 + spread_bps / 10000
CalculateAmountsExact(req, pricing, cfg, spread_bps) ==
  IF req.side = "BUY"
  THEN [amount_in |-> <<req.amount * pricing.ask_price * (BpsDenom + spread_bps),
                        BpsDenom>>,
        amount_out |-> <<req.amount, 1>>]
  ELSE [amount_in |-> <<req.amount, 1>>,
        amount_out |-> <<req.amount * BpsDenom,
                         pricing.bid_price * (BpsDenom + spread_bps)>>]

\* the checks of generate_quote in the order of the code, steps 2 to 12
GateOrder ==
  <<"CHAIN_CHECK", "MAKER_PAUSED_CHECK", "PAIR_ALLOWED_CHECK",
    "PRICING_FRESHNESS_CHECK", "MAX_TRADE_SIZE_CHECK", "DAILY_CAP_CHECK",
    "STRATEGY_ACTIVE_CHECK", "STRATEGY_DOCKED_CHECK", "BUDGET_CHECK",
    "ALLOWANCE_CHECK">>

\* the check whose failure gives the reason
CheckOfReason(reason) ==
  CASE reason = "INVALID_CHAIN" -> "CHAIN_CHECK"
    [] reason = "MAKER_PAUSED" -> "MAKER_PAUSED_CHECK"
    [] reason = "PAIR_NOT_ALLOWED" -> "PAIR_ALLOWED_CHECK"
    [] reason = "STALE_PRICING" -> "PRICING_FRESHNESS_CHECK"
    [] reason = "EXCEEDS_MAX_TRADE_SIZE" -> "MAX_TRADE_SIZE_CHECK"
    [] reason = "EXCEEDS_DAILY_CAP" -> "DAILY_CAP_CHECK"
    [] reason = "STRATEGY_INACTIVE" -> "STRATEGY_ACTIVE_CHECK"
    [] reason = "STRATEGY_DOCKED" -> "STRATEGY_DOCKED_CHECK"
    [] reason = "INSUFFICIENT_BUDGET" -> "BUDGET_CHECK"
    [] reason = "INSUFFICIENT_ALLOWANCE" -> "ALLOWANCE_CHECK"

\* feasibility_checks of the QuoteExplainability returned past the cache
\* lookup: a rejection returns a list of its own with the failed check, an
\* acceptance the list every passed check was appended to.  The line
\* "<check>: PASSED" is kept as the pair of its two parts.
FeasibilityChecks(reason) ==
  IF reason = ""
  THEN [i \in 1..Len(GateOrder) |-> [check |-> GateOrder[i], verdict |-> "PASSED"]]
  ELSE <<[check |-> CheckOfReason(reason), verdict |-> "FAILED"]>>

\* the arguments of generate_quote whose amounts and spread are computed
CalcInputs ==
  { [Base("m1", "k1") EXCEPT
       !.req.side = sd, !.req.amount = a,
       !.pricing.spread_bps = sp, !.pricing.confidence = cf,
       !.pricing.bid_price = px, !.pricing.ask_price = px,
       !.cfg.max_trade_size = mt] :
      sd \in {"BUY", "SELL"}, a \in {1000, 2000}, sp \in {5, 15, 20, 150},
      cf \in {70, 80, 95}, px \in {1, 2}, mt \in {NoMax, 2005} }

NoCalcOut ==
  [reason |-> "", spread_bps |-> 0, amount_in |-> 0, amount_out |-> 0,
   exact_in |-> <<0, 1>>, exact_out |-> <<0, 1>>, checks |-> <<>>]

InitCalc ==
  /\ maker_nonces = EmptyDict
  /\ quote_cache = EmptyDict
  /\ cache_expiry = EmptyDict
  /\ daily_volumes = EmptyDict
  /\ now = 0
  /\ last_volume_reset = UtcDate(0)
  /\ last = NoLast
  /\ hist = NoHist
  /\ pc = [h \in Handlers |-> "idle"]
  /\ loc = [h \in Handlers |-> NoLoc]
  /\ res = [h \in Handlers |-> NoRes]
  /\ enf = NoEnf
  /\ dump = NoDump
  /\ http = NoHttp
  /\ agent = NoAgent
  /\ made = NoMade
  /\ calc \in {[phase |-> "args", in |-> i, out |-> NoCalcOut] : i \in CalcInputs}
  /\ ledger = NoLedger
  /\ curve = NoCurve
  /\ chat = NoChat

\* the gates and _calculate_amounts are applied to the arguments, on a
\* store that holds no volume
Calculate ==
  /\ calc.phase = "args"
  /\ LET in == calc.in
         s == SpreadBps(in.pricing, in.cfg)
         amt == CalculateAmounts(in.req, in.pricing, in.cfg)
         exact == CalculateAmountsExact(in.req, in.pricing, in.cfg, s)
         reason == GateReason(in.req, in.cfg, in.pricing, in.chain, 0)
     IN calc' = [phase |-> "done", in |-> in,
                 out |-> [reason |-> reason,
                          spread_bps |-> amt.spread_bps,
                          amount_in |-> amt.amount_in, amount_out |-> amt.amount_out,
                          exact_in |-> exact.amount_in, exact_out |-> exact.amount_out,
                          checks |-> FeasibilityChecks(reason)]]
  /\ UNCHANGED <<maker_nonces, quote_cache, cache_expiry, daily_volumes,
                 last_volume_reset, now, last, hist, pc, loc, res, enf, dump, http,
                 agent, made, ledger, curve, chat>>

NextCalc == Calculate

SpecCalc == InitCalc /\ [][NextCalc]_vars

\* ------------------------------------- the explainability record: SpecExplain
\* the arguments of generate_quote that stop at each of the gates
ExplainInputs ==
  GateInputs("m1", "k1") \cup AmountInputs("m1", "k1") \cup OtherInputs("m1", "k1")
  \cup ChainInputs("m1", "k1") \cup PausedInputs("m1", "k1")

InitExplain ==
  /\ maker_nonces = EmptyDict
  /\ quote_cache = EmptyDict
  /\ cache_expiry = EmptyDict
  /\ daily_volumes = EmptyDict
  /\ now = 0
  /\ last_volume_reset = UtcDate(0)
  /\ last = NoLast
  /\ hist = NoHist
  /\ pc = [h \in Handlers |-> "idle"]
  /\ loc = [h \in Handlers |-> NoLoc]
  /\ res = [h \in Handlers |-> NoRes]
  /\ enf = NoEnf
  /\ dump = NoDump
  /\ http = NoHttp
  /\ agent = NoAgent
  /\ made = NoMade
  /\ calc \in {[phase |-> "args", in |-> i, out |-> NoCalcOut] : i \in ExplainInputs}
  /\ ledger = NoLedger
  /\ curve = NoCurve
  /\ chat = NoChat

NextExplain == Calculate

SpecExplain == InitExplain /\ [][NextExplain]_vars

\* ------------------------------- record_fill and record_revert: SpecFill
\* the attributes of the StrategyAgent object
Self ==
  [maker_nonces |-> maker_nonces, quote_cache |-> quote_cache,
   cache_expiry |-> cache_expiry, daily_volumes |-> daily_volumes,
   last_volume_reset |-> last_volume_reset,
   fills |-> ledger.fills, reverts |-> ledger.reverts]

\* the key f"{maker}:{nonce}" of a ledger entry
LedgerKey(maker, nonce) == <<maker, nonce>>

\* a record_fill that also takes the maker's next nonce
RecordFillTakesNonce(self, maker, nonce, tx_hash, actual_out, t) ==
  [self EXCEPT !.maker_nonces = BumpNonce(@, maker),
               !.fills = Put(@, LedgerKey(maker, nonce),
                             [tx_hash |-> tx_hash, actual_out |-> actual_out,
                              timestamp |-> t])]

\* record_fill: the object after the call
RecordFillSelf(self, maker, nonce, tx_hash, actual_out, t) ==
  [self EXCEPT !.fills = Put(@, LedgerKey(maker, nonce),
                             [tx_hash |-> tx_hash, actual_out |-> actual_out,
                              timestamp |-> t])]

\* record_revert: the object after the call
RecordRevertSelf(self, maker, nonce, reason, t) ==
  [self EXCEPT !.reverts = Put(@, LedgerKey(maker, nonce),
                               [reason |-> reason, timestamp |-> t])]

\* the object's attributes are the variables of the model
SetSelf(s) ==
  /\ maker_nonces' = s.maker_nonces
  /\ quote_cache' = s.quote_cache
  /\ cache_expiry' = s.cache_expiry
  /\ daily_volumes' = s.daily_volumes
  /\ last_volume_reset' = s.last_volume_reset
  /\ ledger' = [fills |-> s.fills, reverts |-> s.reverts]

\* the requests quoted between the fills: the plain request of maker m1
\* under each key and of maker m2, and a large one under a daily cap
FillInputs ==
  { Base("m1", k) : k \in Keys }
  \cup { Base("m2", "k1"),
         [Base("m1", "k2") EXCEPT !.req.amount = 2000,
                                 !.cfg.daily_caps = Put(EmptyDict, "B", 2500)] }

\* a fill of maker m1 is reported, for the nonce 0 or 1
RecordFill ==
  \E nonce \in {0, 1}, actual_out \in {990} :
    /\ SetSelf(RecordFillSelf(Self, "m1", nonce, "0xt1", actual_out, now))
    /\ UNCHANGED <<now, last, hist, pc, loc, res, enf, dump, http, agent, made,
                   calc, curve, chat>>

\* a revert of maker m1 is reported, for the nonce 0
RecordRevert ==
  \E reason \in {"slippage"} :
    /\ SetSelf(RecordRevertSelf(Self, "m1", 0, reason, now))
    /\ UNCHANGED <<now, last, hist, pc, loc, res, enf, dump, http, agent, made,
                   calc, curve, chat>>

QuoteFill == \E in \in FillInputs : GenerateQuote(in)

NextFill == Tick \/ QuoteFill \/ RecordFill \/ RecordRevert

SpecFill == Init /\ [][NextFill]_vars

\* ------------------------------------- price-engine/main.py: SpecCurve
\* the amounts a grid is made of, and the output the quoter gives for each
GridAmounts == {20, 50}
QuoterOutput(amount) == IF amount = 20 THEN 10 ELSE 26

\* no fee tier answered for the amount
NoQuote == -1

\* parse_amount_grid accepts every list of integers but the empty one
Grids ==
  { <<a>> : a \in GridAmounts } \cup { <<a, b>> : a \in GridAmounts, b \in GridAmounts }

\* sorted(amount_grid), by insertion
RECURSIVE InsertSorted(_, _)
InsertSorted(x, seq) ==
  IF seq = <<>> THEN <<x>>
  ELSE IF x <= Head(seq) THEN <<x>> \o seq
  ELSE <<Head(seq)>> \o InsertSorted(x, Tail(seq))

RECURSIVE Sorted(_)
Sorted(seq) == IF seq = <<>> THEN <<>> ELSE InsertSorted(Head(seq), Sorted(Tail(seq)))

\* generate_cache_key: chain and tokens are the same in every request, the
\* key is the sorted grid
GenerateCacheKey(grid) == Sorted(grid)

\* build_depth_curve lines 590-622: one point per amount of the grid that
\* has a quote, in the order of the grid
RECURSIVE DepthPoints(_, _)
DepthPoints(grid, quotes) ==
  IF grid = <<>> THEN <<>>
  ELSE (IF quotes[Head(grid)] # NoQuote
        THEN <<[amountInRaw |-> Head(grid), amountOutRaw |-> quotes[Head(grid)]]>>
        ELSE <<>>)
       \o DepthPoints(Tail(grid), quotes)

\* build_depth_curve, the whole call: the answer of the request cache while
\* the entry is within CACHE_TTL_MS, else the quotes of the grid; no quote
\* at all is a ValueError
BuildDepthCurve(grid, quotes, within_ttl) ==
  LET key == GenerateCacheKey(grid)
      hit == key \in DOMAIN curve.cache /\ within_ttl
      cache0 == IF key \in DOMAIN curve.cache /\ ~within_ttl
                THEN Del(curve.cache, key) ELSE curve.cache
      points == DepthPoints(grid, quotes)
  IN /\ curve' =
          IF hit
          THEN [curve EXCEPT !.out = [kind |-> "snapshot", grid |-> grid,
                                      depthPoints |-> curve.cache[key]]]
          ELSE IF points = <<>>
          THEN [cache |-> cache0,
                out |-> [kind |-> "error", grid |-> grid, depthPoints |-> <<>>]]
          ELSE [cache |-> Put(cache0, key, points),
                out |-> [kind |-> "snapshot", grid |-> grid, depthPoints |-> points]]
     /\ UNCHANGED <<maker_nonces, quote_cache, cache_expiry, daily_volumes,
                    last_volume_reset, now, last, hist, pc, loc, res, enf, dump, http,
                    agent, made, calc, ledger, chat>>

\* a request to /price with some grid; each amount is quoted or not
GetPriceData ==
  \E grid \in Grids, within_ttl \in BOOLEAN,
     quotes \in [GridAmounts -> {NoQuote} \cup {QuoterOutput(a) : a \in GridAmounts}] :
    /\ \A a \in GridAmounts : quotes[a] \in {NoQuote, QuoterOutput(a)}
    /\ BuildDepthCurve(grid, quotes, within_ttl)

NextCurve == GetPriceData

SpecCurve == Init /\ [][NextCurve]_vars

\* ------------------------------------- maker-agent/maker-agent.py: SpecChat
\* the chat messages sent to the agent
Messages ==
  {"confirm", " Confirm ", "cancel", "status", "pause", "resume",
   "set max trade size to 25000", "set daily cap to lots", "set colour to red",
   "set strategy to 0xnew", "onboard s1 with 5 weth", "onboard s1 with five weth",
   "allow pair weth-dai", "disallow pair weth-dai", "hello"}

\* message.lower().strip() on the messages in use
LowerStrip(message) == IF message = " Confirm " THEN "confirm" ELSE message

\* _simple_nlu: the intent of a message, "none" for None
SimpleNlu(message) ==
  LET m == LowerStrip(message)
  IN CASE m = "status" -> [intent |-> "get_status"]
       [] m = "pause" -> [intent |-> "pause_strategy"]
       [] m = "resume" -> [intent |-> "resume_strategy"]
       [] m = "set max trade size to 25000" ->
            [intent |-> "set_config_value", key |-> "max trade size", value |-> "25000"]
       [] m = "set daily cap to lots" ->
            [intent |-> "set_config_value", key |-> "daily cap", value |-> "lots"]
       [] m = "set colour to red" ->
            [intent |-> "set_config_value", key |-> "colour", value |-> "red"]
       [] m = "set strategy to 0xnew" ->
            [intent |-> "set_config_value", key |-> "strategy", value |-> "0xnew"]
       [] m = "onboard s1 with 5 weth" ->
            [intent |-> "prepare_onboarding", name |-> "s1", amount |-> "5",
             token |-> "weth"]
       [] m = "onboard s1 with five weth" ->
            [intent |-> "prepare_onboarding", name |-> "s1", amount |-> "five",
             token |-> "weth"]
       [] m = "allow pair weth-dai" ->
            [intent |-> "set_pair_allowed", pair |-> "weth-dai", allowed |-> TRUE]
       [] m = "disallow pair weth-dai" ->
            [intent |-> "set_pair_allowed", pair |-> "weth-dai", allowed |-> FALSE]
       [] OTHER -> [intent |-> "none"]

\* MakerAgent.key_map, "" for a key that is not in it
KeyMap(raw_key) ==
  CASE raw_key = "max trade size" -> "max_trade_size_usd"
    [] raw_key = "daily cap" -> "daily_cap_usd"
    [] raw_key = "strategy" -> "active_strategy_hash"
    [] OTHER -> ""

\* float(str_value) on the values in use: ok is FALSE for the ValueError
ParseFloat(str_value) ==
  IF str_value = "25000" THEN [ok |-> TRUE, num |-> 25000]
  ELSE IF str_value = "5" THEN [ok |-> TRUE, num |-> 5]
  ELSE [ok |-> FALSE, num |-> 0]

\* a pause or resume that is applied when it is proposed
ProposePauseOrResumeApplied(a, pause) ==
  [a EXCEPT !.config.is_paused = pause, !.reply = "proposed"]

\* propose_pause_or_resume
ProposePauseOrResume(a, pause) ==
  [a EXCEPT !.pending_action = [NoPending EXCEPT !.type = "update_config",
                                                 !.key = "is_paused", !.flag = pause],
            !.reply = "proposed"]

\* propose_config_update with _parse_config_value
ProposeConfigUpdate(a, raw_key, str_value) ==
  LET key == KeyMap(raw_key)
      parsed == ParseFloat(str_value)
  IN IF key = "" THEN [a EXCEPT !.reply = "unknown_key"]
     ELSE IF key \in {"max_trade_size_usd", "daily_cap_usd"}
     THEN IF ~parsed.ok THEN [a EXCEPT !.reply = "invalid_format"]
          ELSE [a EXCEPT !.pending_action =
                           [NoPending EXCEPT !.type = "update_config", !.key = key,
                                             !.num = parsed.num],
                         !.reply = "proposed"]
     ELSE [a EXCEPT !.pending_action =
                      [NoPending EXCEPT !.type = "update_config", !.key = key,
                                        !.str = str_value],
                    !.reply = "proposed"]

\* MockWeb3Utils.compute_strategy_hash of the strategy bytes of a name
StrategyHashOf(name) == IF name = "s1" THEN "0xhash_s1" ELSE "0xhash_other"

\* propose_onboarding
ProposeOnboarding(a, name, amount, token) ==
  IF ~ParseFloat(amount).ok THEN [a EXCEPT !.reply = "invalid_amount"]
  ELSE [a EXCEPT !.pending_action =
                   [NoPending EXCEPT !.type = "onboard_strategy", !.key = name,
                                     !.num = ParseFloat(amount).num,
                                     !.str = StrategyHashOf(name)],
                 !.reply = "proposed"]

\* propose_set_pair_allowed
ProposeSetPairAllowed(a, pair, allowed) ==
  [a EXCEPT !.pending_action =
              [NoPending EXCEPT !.type = "set_pair_allowed", !.str = pair,
                                !.flag = allowed],
            !.reply = "proposed"]

\* self.config[key] = value
SetConfigValue(config, action) ==
  CASE action.key = "is_paused" -> [config EXCEPT !.is_paused = action.flag]
    [] action.key = "max_trade_size_usd" -> [config EXCEPT !.max_trade_size_usd = action.num]
    [] action.key = "daily_cap_usd" -> [config EXCEPT !.daily_cap_usd = action.num]
    [] action.key = "active_strategy_hash" ->
         [config EXCEPT !.active_strategy_hash = action.str]

\* confirm_action.  _audit_log calls time.isoformat, which the time module
\* does not have: the AttributeError is caught by confirm_action after the
\* configuration was written, and the reply is the error message.
ConfirmAction(a) ==
  LET action == a.pending_action
  IN IF action = NoPending THEN [a EXCEPT !.reply = "nothing_to_confirm"]
     ELSE IF action.type = "update_config"
     THEN [a EXCEPT !.pending_action = NoPending,
                    !.config = SetConfigValue(a.config, action),
                    !.reply = "error"]
     ELSE IF action.type = "onboard_strategy"
     THEN [a EXCEPT !.pending_action = NoPending,
                    !.config.active_strategy_hash = action.str,
                    !.reply = "error"]
     ELSE [a EXCEPT !.pending_action = NoPending, !.reply = "error"]

\* cancel_action
CancelAction(a) ==
  IF a.pending_action = NoPending THEN [a EXCEPT !.reply = "nothing_to_cancel"]
  ELSE [a EXCEPT !.pending_action = NoPending, !.reply = "cancelled"]

\* handle_message, the whole call; msg keeps the message handled
HandleMessageSelf(a0, message) ==
  LET a == [a0 EXCEPT !.msg = message]
      intent_data == SimpleNlu(message)
      intent == intent_data.intent
  IN IF LowerStrip(message) = "confirm" THEN ConfirmAction(a)
     ELSE IF LowerStrip(message) = "cancel" THEN CancelAction(a)
     ELSE IF a.pending_action # NoPending THEN [a EXCEPT !.reply = "pending"]
     ELSE IF intent = "none" THEN [a EXCEPT !.reply = "not_understood"]
     ELSE IF intent = "get_status" THEN [a EXCEPT !.reply = "status"]
     ELSE IF intent = "pause_strategy" THEN ProposePauseOrResume(a, TRUE)
     ELSE IF intent = "resume_strategy" THEN ProposePauseOrResume(a, FALSE)
     ELSE IF intent = "set_config_value"
     THEN ProposeConfigUpdate(a, intent_data.key, intent_data.value)
     ELSE IF intent = "prepare_onboarding"
     THEN ProposeOnboarding(a, intent_data.name, intent_data.amount, intent_data.token)
     ELSE ProposeSetPairAllowed(a, intent_data.pair, intent_data.allowed)

HandleMessage ==
  \E message \in Messages :
    /\ chat' = HandleMessageSelf(chat, message)
    /\ UNCHANGED <<maker_nonces, quote_cache, cache_expiry, daily_volumes,
                   last_volume_reset, now, last, hist, pc, loc, res, enf, dump, http,
                   agent, made, calc, ledger, curve>>

NextChat == HandleMessage

SpecChat == Init /\ [][NextChat]_vars

\* ------------------------------------------------------------ claims, Spec
\* a step that is a call: every call that changes the store changes last
IsCall == last' # last

Accepted(l) == l.kind \in {"accepted", "cached"}

\* C1 as stated: for every maker, the nonces of the accepted intents returned
\* for it, cache hits included, strictly increase in the order returned.
C1_ReturnedNoncesIncrease ==
  [][(IsCall /\ Accepted(last'))
       => last'.intent.nonce > hist.curRet[last'.intent.maker]]_vars

\* C1 amended: for every maker, the nonces of the newly issued intents (those
\* not served from the idempotency cache) strictly increase in order of issue.
C1_IssuedNoncesIncrease ==
  [][(IsCall /\ last'.kind = "accepted")
       => last'.intent.nonce > hist.curNew[last'.intent.maker]]_vars

\* a maker has been issued a second intent
C1_Witness ==
  /\ last.kind = "accepted"
  /\ last.intent.nonce = 1
  /\ hist.curNew[last.intent.maker] = 1

\* C2: once a call under key k has returned an accepted intent I, every later
\* call under k made while now < I.expiry returns exactly I, whatever policy,
\* pricing and chain snapshot it carries.
C2_SameKeySameIntent ==
  [][\A k \in Keys :
       (IsCall /\ last'.key = k /\ hist.retByKey[k] # NoIntent
          /\ now < hist.retByKey[k].expiry)
       => (last'.kind = "cached" /\ last'.intent = hist.retByKey[k])]_vars

\* a key was answered from the cache for another maker's policy
C2_Witness ==
  /\ last.kind = "cached"
  /\ last.intent = hist.retByKey[last.key]
  /\ last.maker # last.intent.maker
  /\ last.at < last.intent.expiry

\* C3: after every acceptance under a policy with a daily cap on token_out,
\* the amounts accepted for that maker and token since the date last changed
\* sum to at most the cap.
C3_DailyCapRespected ==
  (last.kind = "accepted" /\ last.cap # -1)
    => hist.accepted_today[last.intent.maker][last.intent.token_out] <= last.cap

\* a capped acceptance on top of volume already recorded that day
C3_Witness ==
  /\ last.kind = "accepted"
  /\ last.cap # -1
  /\ hist.accepted_today[last.intent.maker][last.intent.token_out]
       > last.intent.amount_out

\* C5: an accepted intent has min_out_net <= amount_out and, when the policy
\* it was issued under sets max_trade_size, amount_out <= max_trade_size.
C5_AmountBounds ==
  /\ (last.kind = "accepted")
       => /\ last.intent.min_out_net <= last.intent.amount_out
          /\ (last.max_trade_size # NoMax
                => last.intent.amount_out <= last.max_trade_size)
  /\ \A k \in DOMAIN quote_cache :
       quote_cache[k].min_out_net <= quote_cache[k].amount_out

\* an intent was accepted under a policy that sets max_trade_size
C5_Witness ==
  /\ last.kind = "accepted"
  /\ last.max_trade_size # NoMax
  /\ last.intent.amount_out > 0

PolicyGateReasons ==
  {"INVALID_CHAIN", "MAKER_PAUSED", "PAIR_NOT_ALLOWED", "STALE_PRICING",
   "EXCEEDS_MAX_TRADE_SIZE", "EXCEEDS_DAILY_CAP"}

PolicyRejection(l) == l.kind = "rejected" /\ l.intent.reason \in PolicyGateReasons

\* C10 as stated: a request rejected by the policy gate leaves every nonce
\* counter, cache entry and daily-volume counter as it was before the call.
C10_PolicyRejectionTouchesNothing ==
  [][(IsCall /\ PolicyRejection(last'))
       => UNCHANGED <<maker_nonces, quote_cache, cache_expiry, daily_volumes>>]_vars

\* C10 amended: a request rejected by the policy gate allocates no nonce,
\* writes no cache entry and adds no volume; the only changes are the removal
\* of an expired entry under the request's own key and the clearing of the
\* daily volumes when the UTC date has changed.
C10_PolicyRejectionCommitsNothing ==
  [][(IsCall /\ PolicyRejection(last'))
       => /\ maker_nonces' = maker_nonces
          /\ \/ quote_cache' = quote_cache /\ cache_expiry' = cache_expiry
             \/ /\ last'.key \in DOMAIN quote_cache
                /\ now >= cache_expiry[last'.key]
                /\ quote_cache' = Del(quote_cache, last'.key)
                /\ cache_expiry' = Del(cache_expiry, last'.key)
          /\ \/ daily_volumes' = daily_volumes
             \/ /\ UtcDate(now) # last_volume_reset
                /\ daily_volumes' = EmptyDict]_vars

\* a policy rejection in a store that holds nonces, entries and volumes
C10_Witness ==
  /\ PolicyRejection(last)
  /\ maker_nonces # EmptyDict
  /\ quote_cache # EmptyDict
  /\ daily_volumes # EmptyDict

\* C13 as stated: every call given a paused policy returns a rejected intent
\* with reason MAKER_PAUSED.
C13_PausedAlwaysRejects ==
  last.paused => (last.kind = "rejected" /\ last.intent.reason = "MAKER_PAUSED")

\* C13 amended: a call given a paused policy, on a supported chain and with
\* no unexpired intent cached under its key, returns a rejected intent with
\* reason MAKER_PAUSED whatever the chain snapshot holds.
C13_PausedRejectsPastLookup ==
  (last.paused /\ last.chain_supported /\ last.kind # "cached")
  => (last.kind = "rejected" /\ last.intent.reason = "MAKER_PAUSED")

\* a paused policy met a chain snapshot whose strategy is not active
C13_Witness ==
  /\ last.paused
  /\ last.kind = "rejected"
  /\ last.intent.reason = "MAKER_PAUSED"
  /\ ~last.chain_active

C22_RejectionIsFinalForKey ==
  [][(IsCall /\ last.kind = "rejected" /\ last.key # "" /\ last'.key = last.key)
       => last'.kind # "accepted"]_vars

\* C26: the cache returns an entry only while its expiry is strictly greater
\* than the clock; a lookup at or after the expiry returns nothing and
\* removes the entry, the request is evaluated afresh and, if accepted, is
\* given a newly allocated nonce and cached in place of the old entry.
C26_ExpiredEntryIsNotServed ==
  [][IsCall
       => /\ (last'.kind = "cached")
               => /\ last'.key \in DOMAIN quote_cache
                  /\ cache_expiry[last'.key] > now
                  /\ last'.intent = quote_cache[last'.key]
          /\ (last'.key \in DOMAIN quote_cache /\ ~(cache_expiry[last'.key] > now))
               => /\ last'.kind # "cached"
                  /\ (last'.kind # "accepted") => last'.key \notin DOMAIN quote_cache'
                  /\ (last'.kind = "accepted")
                       => /\ last'.intent.nonce > hist.curNew[last'.intent.maker]
                          /\ last'.intent.nonce
                               = maker_nonces'[last'.intent.maker] - 1
                          /\ quote_cache'[last'.key] = last'.intent
                          /\ cache_expiry'[last'.key] > now]_vars

\* a request whose key had an expired entry was evaluated afresh, accepted
\* with a later nonce and cached again
C26_Witness ==
  /\ last.kind = "accepted"
  /\ last.evicted
  /\ last.intent.nonce > 0
  /\ quote_cache[last.key] = last.intent

\* C28: quote generation never raises: every call returns an accepted, a
\* cached or a rejected intent, a bid or ask price of 0 included.
C28_NeverRaises == last.kind # "raised"

\* -------------------------------------------------------- claims, SpecConc
\* C7: handlers that allocate nonces for the same maker with their steps
\* interleaved never receive the same nonce.
C7_DistinctNonces ==
  \A g, h \in Handlers :
    (g # h /\ loc[g].nonce # -1 /\ loc[h].nonce # -1
       /\ loc[g].in.cfg.maker_address = loc[h].in.cfg.maker_address)
    => loc[g].nonce # loc[h].nonce

Fresh(h) == pc[h] = "done" /\ res[h].kind = "accepted"
Served(h) == pc[h] = "done" /\ res[h].kind \in {"accepted", "cached"}

\* C8: of two calls under the same key that ran concurrently and whose
\* intents are both still unexpired, at most one synthesized a new intent and
\* both received the same intent.
C8_OneIntentPerKey ==
  \A g, h \in Handlers :
    (g # h /\ Served(g) /\ Served(h) /\ loc[g].overlap /\ loc[h].overlap
       /\ loc[g].in.req.idempotency_key = loc[h].in.req.idempotency_key
       /\ now < res[g].intent.expiry /\ now < res[h].intent.expiry)
    => (res[g].intent = res[h].intent /\ ~(Fresh(g) /\ Fresh(h)))

\* C9: two calls for the same maker and token_out that ran concurrently on
\* the same UTC date under the same daily cap are never both accepted with
\* amounts that together exceed the cap.
C9_ConcurrentCapRespected ==
  \A g, h \in Handlers :
    (g # h /\ Fresh(g) /\ Fresh(h) /\ loc[g].overlap /\ loc[h].overlap
       /\ UtcDate(now) = UtcDate(0)
       /\ res[g].intent.maker = res[h].intent.maker
       /\ res[g].intent.token_out = res[h].intent.token_out
       /\ res[g].intent.token_out \in DOMAIN loc[g].in.cfg.daily_caps
       /\ loc[g].in.cfg.daily_caps = loc[h].in.cfg.daily_caps)
    => res[g].intent.amount_out + res[h].intent.amount_out
         <= loc[g].in.cfg.daily_caps[res[g].intent.token_out]

\* --------------------------------------------------------- claims, SpecEnf
IsRejection(e) == e.phase = "response" /\ ~e.out.raised /\ e.out.decision = "REJECT"
IsAcceptance(e) == e.phase = "response" /\ ~e.out.raised /\ e.out.decision = "ACCEPT"

\* C4: every rejected intent returned by quote processing carries zero
\* amounts (and nonce -1, amount_in 0 where it has those fields) and only
\* reasons of the closed set.
C4_RejectedIntentCanonical ==
  /\ (last.kind = "rejected")
       => /\ last.intent.nonce = -1
          /\ last.intent.amount_in = 0
          /\ last.intent.amount_out = 0
          /\ last.intent.reason \in RejectReason
  /\ IsRejection(enf)
       => /\ enf.out.buyAmount[1] = 0
          /\ \A i \in 1..Len(enf.out.reasonCodes) :
               enf.out.reasonCodes[i] \in RejectReason

\* C6: every accepted intent expires at the Unix time of its issue plus the
\* policy's TTL (here in either unit, seconds or milliseconds).
C6_ExpiryIsIssueTimePlusTtl ==
  /\ (last.kind = "accepted")
       => /\ last.intent.ttl_sec = last.ttl
          /\ last.intent.expiry = last.at + last.ttl
  /\ IsAcceptance(enf)
       => \/ enf.out.expiry = (enf.in.nowMs \div 1000) + enf.in.ttlSec
          \/ enf.out.expiry = enf.in.nowMs + enf.in.ttlSec * 1000

\* a handler between the first and the last of its three commit effects
PartialCommit(h) == pc[h] \in {"cache_put", "expiry_put", "vol_load", "vol_store"}

\* a handler whose next statement reads the store
ReadsStore(h) ==
  pc[h] \in {"reset", "lookup", "gates", "nonce_read", "nonce_load", "vol_load"}

\* C12: an accepted request advances the maker's nonce counter, maps its key
\* to the intent and adds amount_out to the maker's daily volume, and no other
\* handler reads the store while only some of the three have taken effect.
C12_CommitIsAtomic ==
  /\ (last.kind = "accepted")
       => /\ Get(maker_nonces, last.maker, 0) = last.intent.nonce + 1
          /\ Get(quote_cache, last.key, NoIntent) = last.intent
          /\ GetDailyVolume(daily_volumes, last.maker, last.intent.token_out)
               >= last.intent.amount_out
  /\ \A g, h \in Handlers : (g # h /\ PartialCommit(h)) => ~ReadsStore(g)

\* the impact check and the trade-size check of the enforcer pass
EnfOtherChecksPass(in) ==
  LET c == CalculateImpact(in.sellAmount, in.depthPoints)
  IN /\ ~c.raised
     /\ ~QGreater(c.impact_bps, in.maxImpactBps)
     /\ ~(in.maxTradeRaw > 0 /\ in.sellAmount > in.maxTradeRaw)

\* C14: a request whose pricing snapshot is stale and that passes every
\* other check is rejected with reason STALE_PRICING.
C14_StaleAlwaysRejected ==
  (enf.phase = "response" /\ enf.in.stale /\ EnfOtherChecksPass(enf.in))
  => /\ enf.out.decision = "REJECT"
     /\ enf.out.reasonCodes = <<"STALE_PRICING">>

\* a curve as the pricing provider promises it: strictly increasing in
\* amountInRaw from above zero, non-decreasing in amountOutRaw
ValidCurve(points) ==
  /\ points # <<>>
  /\ points[1].amountInRaw > 0
  /\ \A i \in 1..(Len(points) - 1) :
       /\ points[i].amountInRaw < points[i + 1].amountInRaw
       /\ points[i].amountOutRaw <= points[i + 1].amountOutRaw

\* p <= q for quotients with positive denominators
QLeq(p, q) == p[1] * q[2] <= q[1] * p[2]

\* the evaluator has been applied to a request with a valid curve
EvaluatedValid == enf.phase = "response" /\ ValidCurve(enf.in.depthPoints)

\* C15: on a valid curve the buy amount computed for a smaller sell amount
\* is at most the buy amount computed for a larger one.
C15_EvaluatorMonotone ==
  EvaluatedValid
  => \A i \in EnfInputs :
       (i.depthPoints = enf.in.depthPoints /\ i.sellAmount <= enf.in.sellAmount)
       => QLeq(CalculateImpact(i.sellAmount, i.depthPoints).buy_amount,
               CalculateImpact(enf.in.sellAmount, enf.in.depthPoints).buy_amount)

\* what the evaluator returns for the request at hand
Evaluated == CalculateImpact(enf.in.sellAmount, enf.in.depthPoints)

\* the quotient q is the integer n
QIs(q, n) == q[2] # 0 /\ q[1] = n * q[2]

\* C16: with sell_amount equal to the amountInRaw of a point of the curve,
\* the evaluator returns that point's amountOutRaw and impactBps.
C16_ExactAtCurvePoint ==
  EvaluatedValid
  => \A i \in 1..Len(enf.in.depthPoints) :
       (enf.in.depthPoints[i].amountInRaw = enf.in.sellAmount)
       => /\ ~Evaluated.raised
          /\ QIs(Evaluated.buy_amount, enf.in.depthPoints[i].amountOutRaw)
          /\ QIs(Evaluated.impact_bps, enf.in.depthPoints[i].impactBps)

\* C17: with sell_amount above the amountInRaw of the last point, the
\* evaluator returns the last point's amountOutRaw and impactBps.
C17_SaturatesAtLastPoint ==
  LET points == enf.in.depthPoints
  IN (EvaluatedValid /\ enf.in.sellAmount > points[Len(points)].amountInRaw)
     => /\ ~Evaluated.raised
        /\ QIs(Evaluated.buy_amount, points[Len(points)].amountOutRaw)
        /\ QIs(Evaluated.impact_bps, points[Len(points)].impactBps)

\* C18: a request with an empty depth curve is rejected with reason
\* STALE_PRICING; it does not end in an arithmetic error or a 500 response.
C18_EmptyCurveIsStalePricing ==
  (enf.phase = "response" /\ enf.in.depthPoints = <<>>)
  => /\ ~enf.out.raised
     /\ HttpStatus(enf.out) # 500
     /\ enf.out.decision = "REJECT"
     /\ \E i \in 1..Len(enf.out.reasonCodes) : enf.out.reasonCodes[i] = "STALE_PRICING"

\* a curve with a point whose amountInRaw is not above its predecessor's
NotIncreasing(points) ==
  \E i \in 1..(Len(points) - 1) : points[i].amountInRaw >= points[i + 1].amountInRaw

\* C19: a curve that is not strictly increasing in amountInRaw fails with
\* INTERNAL_ERROR: not with a policy rejection, an accepted quote or a
\* division by zero.
C19_NonMonotoneCurveIsInternalError ==
  (enf.phase = "response" /\ NotIncreasing(enf.in.depthPoints))
  => /\ ~enf.out.raised
     /\ enf.out.decision # "ACCEPT"
     /\ enf.out.reasonCodes = <<"INTERNAL_ERROR">>

\* C23: the policy gate stops at the first failing check, so a rejected
\* response carries exactly one reason, that of the first check that fails in
\* the order pricing fresh, then max trade size.
C23_FirstFailureOnly ==
  IsRejection(enf)
  => /\ Len(enf.out.reasonCodes) = 1
     /\ (EnfStale(enf.in) /\ enf.in.rejectIfStale)
          => enf.out.reasonCodes = <<"STALE_PRICING">>

\* C30: a pricing snapshot whose confidence score is below the configured
\* minimum is rejected with STALE_PRICING, even when its stale flag is false
\* and it is recent.  Scores are in hundredths.
C30_LowConfidenceIsStalePricing ==
  (/\ enf.phase = "response"
   /\ ~enf.out.raised
   /\ enf.in.confidenceScore < enf.in.minConfidenceScore)
  => /\ enf.out.decision = "REJECT"
     /\ \E i \in 1..Len(enf.out.reasonCodes) : enf.out.reasonCodes[i] = "STALE_PRICING"

\* C34: processing a quote request never mutates its inputs: the pricing
\* snapshot handed in has the same stale flag after the call as before it.
C34_InputsNotMutated ==
  enf.phase = "response" => enf.out.stale = enf.in.stale

\* -------------------------------------------------------- claims, SpecDump
FeasibilityGateReasons ==
  {"STRATEGY_INACTIVE", "STRATEGY_DOCKED", "INSUFFICIENT_BUDGET",
   "INSUFFICIENT_ALLOWANCE"}

FeasibilityRejection(l) ==
  l.kind = "rejected" /\ l.intent.reason \in FeasibilityGateReasons

\* a step of dump.py's process_quote_request that ends in a feasibility rejection
DumpFeasibilityRejected ==
  dump' # dump /\ dump'.out.kind = "rejected"
  /\ dump'.out.reason \in FeasibilityGateReasons

\* C11: a request that passes the policy gate and is rejected by the
\* feasibility gate allocates no nonce for the maker, writes no cache entry
\* and adds no daily volume.
C11_FeasibilityRejectionCommitsNothing ==
  [][/\ (IsCall /\ FeasibilityRejection(last'))
          => /\ maker_nonces' = maker_nonces
             /\ \A k \in DOMAIN quote_cache' :
                  k \in DOMAIN quote_cache /\ quote_cache'[k] = quote_cache[k]
             /\ daily_volumes' \in {daily_volumes, EmptyDict}
     /\ DumpFeasibilityRejected
          => /\ dump'.maker_nonces = dump.maker_nonces
             /\ DOMAIN dump'.quote_cache \subseteq DOMAIN dump.quote_cache
             /\ \A m \in DOMAIN dump'.daily_volumes :
                  \A pk \in DOMAIN dump'.daily_volumes[m] :
                    dump'.daily_volumes[m][pk].volume = 0]_vars

\* C24: the feasibility gate checks, in order, that the strategy is active,
\* that it is not docked, the budget and the allowance, and names the check
\* that failed: STRATEGY_INACTIVE is given only for a strategy that is not
\* active, STRATEGY_DOCKED for a docked one, and the budget and allowance
\* reasons only for a strategy that is active and not docked.
C24_FeasibilityReasonNamesTheCheck ==
  [][\A in \in DumpInputs :
       (DumpProcessQuoteRequest(in) /\ DumpFeasibilityRejected)
       => /\ in.chain.strategyStatus = "INACTIVE"
               <=> dump'.out.reason = "STRATEGY_INACTIVE"
          /\ in.chain.strategyStatus = "DOCKED"
               <=> dump'.out.reason = "STRATEGY_DOCKED"]_vars

\* the request for the same pair in the other direction
ReversePair(req) == [req EXCEPT !.tokenIn = req.tokenOut, !.tokenOut = req.tokenIn]

\* C33: pair admission is symmetric: a request for A/B is rejected with
\* PAIR_NOT_ALLOWED exactly when the request for B/A under the same policy is.
C33_PairAdmissionSymmetric ==
  [][\A in \in DumpInputs :
       (DumpProcessQuoteRequest(in) /\ ~in.pricing.stale)
       => (dump'.out.reason = "PAIR_NOT_ALLOWED"
           <=> DumpPolicyReason(ReversePair(in.req), in.cfg, dump.daily_volumes, now)
                 = "PAIR_NOT_ALLOWED")]_vars

\* C39: a policy whose allowed-pair list is empty admits every token pair:
\* no request is rejected with PAIR_NOT_ALLOWED under such a policy, neither
\* by process_quote_request of dump.py nor by the gates of generate_quote.
C39_EmptyPairListAdmitsAll ==
  /\ [][\A in \in DumpInputs :
          (in.cfg.allowedPairs = <<>> /\ DumpProcessQuoteRequest(in))
          => dump'.out.reason # "PAIR_NOT_ALLOWED"]_vars
  /\ [](\A in \in ExplainInputs :
          in.cfg.allowed_pairs = {}
          => GateReason(in.req, in.cfg, in.pricing, in.chain, 0) # "PAIR_NOT_ALLOWED")

\* the request for B/A, a pair no policy lists, was answered with an
\* intent: only the policy with the empty list lets it through
C39_Witness ==
  /\ dump.out.kind = "intent"
  /\ dump.out.intent.tokenIn = "B"
  /\ dump.out.intent.tokenOut = "A"

\* -------------------------------------------------------- claims, SpecHttp
\* a request the gates of process_quote_request rejected
HttpGateRejected ==
  /\ http.phase = "response"
  /\ \/ /\ http.endpoint = "intent"
        /\ http.shape = "ok"
        /\ EnfProcessRaises(http.shape, http.in) = ""
        /\ EnfRejections(http.in) # <<>>
     \/ /\ http.endpoint = "quote"
        /\ http.shape = "ok"
        /\ http.rejections # <<>>

\* a request with a missing or wrongly typed field
HttpMalformed ==
  /\ http.phase = "response"
  /\ http.shape \notin {"ok", "no_body"}

\* C21: at the HTTP boundary a request the gates rejected is answered with
\* status 200 and a body that marks the rejection; a request with a missing
\* or wrongly typed field is answered with a 4xx status
C21_RejectionIs200MalformedIs4xx ==
  /\ HttpGateRejected => (http.status = 200 /\ http.body.rejected)
  /\ HttpMalformed => (http.status >= 400 /\ http.status <= 499)

\* ------------------------------------------------------- claims, SpecAgent
\* the volume recorded today for maker m1 on the pair A-B
AgentVolume(st, t) ==
  LET row == Get(st.daily_volumes, "m1", EmptyDict)
      pk == PairKey("A", "B")
  IN IF pk \in DOMAIN row /\ row[pk].date = DumpToday(t) THEN row[pk].volume ELSE 0

\* a step of the given operation on the state
AgentStep(op) == agent' # agent /\ agent'.out.op = op

\* C25: validation is pure: evaluating the policy, the daily-cap predicate
\* included, leaves the daily-volume counter as it was; the counter grows
\* only when an accepted intent is committed.
C25_ValidationLeavesVolume ==
  [][AgentStep("check_policy_enforcement")
       => AgentVolume(agent', now) = AgentVolume(agent, now)]_vars

\* C27: the nonce allocator returns 0 on the first call for a maker and the
\* value of the counter before the call on every call (return the current
\* value, then increment).
C27_FirstNonceIsZero ==
  [][AgentStep("get_next_nonce")
       => /\ (agent'.out.maker \notin DOMAIN agent.maker_nonces) => agent'.out.ret = 0
          /\ agent'.out.ret = Get(agent.maker_nonces, agent'.out.maker, 0)
          /\ agent'.maker_nonces[agent'.out.maker] = agent'.out.ret + 1]_vars

\* --------------------------------------------------------- claims, SpecKey
\* the fields of a request that identify it
RequestAlone(r) == <<r.chain_id, r.side, r.token_in, r.token_out, r.amount, r.taker>>

\* C29: with no idempotency key supplied, the derived key is a function of
\* the request alone (chain, side, token-in, token-out, amount, taker): two
\* identical requests derive the same key whenever they are created.
C29_DerivedKeyIgnoresTime ==
  (/\ made.phase = "made"
   /\ made.a0.idempotency_key = ""
   /\ made.b0.idempotency_key = ""
   /\ RequestAlone(made.a0) = RequestAlone(made.b0))
  => made.a.idempotency_key = made.b.idempotency_key

\* -------------------------------------------------------- claims, SpecCalc
Clamp(x, lo, hi) == IF x < lo THEN lo ELSE IF x > hi THEN hi ELSE x

\* the spread the specification gives: the clamped market spread, one and a
\* half times it, truncated, when the confidence is below 0.8
ExpectedSpread(in) ==
  LET c == Clamp(in.pricing.spread_bps, in.cfg.min_spread_bps, in.cfg.max_spread_bps)
  IN IF in.pricing.confidence >= 80 THEN c ELSE (15 * c) \div 10

\* the verdict of the gates on the same arguments with full confidence
ReasonAtConfidence(in, c) ==
  GateReason(in.req, in.cfg, [in.pricing EXCEPT !.confidence = c], in.chain, 0)

\* C31 as stated: the spread of an accepted intent is the clamped market
\* spread, times 1.5 and truncated under low confidence, and low confidence
\* alone never causes a rejection: a request that is accepted with full
\* confidence is accepted with low confidence.
C31_LowConfidenceNeverRejects ==
  (calc.phase = "done")
  => /\ (calc.out.reason = "") => calc.out.spread_bps = ExpectedSpread(calc.in)
     /\ (ReasonAtConfidence(calc.in, 95) = "") => calc.out.reason = ""

\* C31 amended: the spread of an accepted intent is the clamped market
\* spread, times 1.5 and truncated under low confidence; a request that is
\* accepted with full confidence is, with low confidence, accepted or
\* rejected with EXCEEDS_MAX_TRADE_SIZE, and then it is a BUY whose amount_in
\* the wider spread has carried over the limit.
C31_SpreadClampedAndWidened ==
  (calc.phase = "done")
  => /\ (calc.out.reason = "") => calc.out.spread_bps = ExpectedSpread(calc.in)
     /\ (ReasonAtConfidence(calc.in, 95) = "")
          => \/ calc.out.reason = ""
             \/ /\ calc.out.reason = "EXCEEDS_MAX_TRADE_SIZE"
                /\ calc.in.req.side = "BUY"
                /\ calc.in.pricing.confidence < 80
                /\ calc.out.amount_in > calc.in.cfg.max_trade_size

\* a request with low confidence was accepted with the widened, truncated
\* spread of 22 for a market spread of 15
C31_Witness ==
  /\ calc.phase = "done"
  /\ calc.in.pricing.confidence < 80
  /\ calc.in.pricing.spread_bps = 15
  /\ calc.out.reason = ""
  /\ calc.out.spread_bps = 22

RECURSIVE Gcd(_, _)
Gcd(a, b) == IF b = 0 THEN a ELSE Gcd(b, a % b)

\* a quotient in lowest terms
Lowest(q) == LET g == Gcd(q[1], q[2]) IN <<q[1] \div g, q[2] \div g>>

\* C32: for a SELL amount_in is the requested amount and amount_out is
\* amount_in / bid * (1 - spread_bps/10000); for a BUY amount_out is the
\* requested amount and amount_in is amount_out * ask * (1 + spread_bps/10000).
C32_AmountsFollowTheFormulas ==
  (calc.phase = "done")
  => LET in == calc.in
         s == calc.out.spread_bps
     IN IF in.req.side = "BUY"
        THEN /\ Lowest(calc.out.exact_out) = <<in.req.amount, 1>>
             /\ Lowest(calc.out.exact_in)
                  = Lowest(<<in.req.amount * in.pricing.ask_price * (BpsDenom + s),
                             BpsDenom>>)
        ELSE /\ Lowest(calc.out.exact_in) = <<in.req.amount, 1>>
             /\ Lowest(calc.out.exact_out)
                  = Lowest(<<in.req.amount * (BpsDenom - s),
                             in.pricing.bid_price * BpsDenom>>)

\* -------------------------------------------------------- claims, SpecFill
\* the answer generate_quote gives to a request in the current state
QuoteOutcome(in) ==
  LET maker == in.cfg.maker_address
      key == in.req.idempotency_key
      vols0 == ResetVolumes(daily_volumes, last_volume_reset, UtcDate(now))
      reason == GateReason(in.req, in.cfg, in.pricing, in.chain,
                           GetDailyVolume(vols0, maker, in.req.token_out))
  IN IF CacheHit(quote_cache, cache_expiry, key, now) THEN quote_cache[key]
     ELSE IF reason = "RAISED" THEN NoIntent
     ELSE IF reason # "" THEN CreateRejectedIntent(in.req, in.cfg, reason)
     ELSE BuildIntent(in.req, in.cfg, in.pricing, NextNonce(maker_nonces, maker), now)

\* C35: recording a fill or a revert changes only the fill and revert ledger:
\* the nonce counters, the quote cache and the daily volumes are unchanged,
\* and every request gets the same answer from generate_quote after the
\* recording as before it.
C35_RecordingChangesOnlyTheLedger ==
  [][ledger' # ledger
       => /\ UNCHANGED store
          /\ \A in \in FillInputs : QuoteOutcome(in)' = QuoteOutcome(in)]_vars

\* a fill and a revert are on the ledger of a maker who has a nonce, a cached
\* quote and a volume of the day
C35_Witness ==
  /\ LedgerKey("m1", 0) \in DOMAIN ledger.fills
  /\ LedgerKey("m1", 0) \in DOMAIN ledger.reverts
  /\ Get(maker_nonces, "m1", 0) > 0
  /\ quote_cache # EmptyDict
  /\ daily_volumes # EmptyDict

\* C38: every intent returned by generate_quote belongs to the request it
\* answers: its maker is the maker address of the policy passed in and its
\* token_in and token_out are those of the request, also when the intent is
\* served from the idempotency cache.
C38_IntentBelongsToRequest ==
  [][\A in \in FillInputs :
       (GenerateQuote(in) /\ last'.kind \in {"accepted", "cached", "rejected"})
       => /\ last'.intent.maker = in.cfg.maker_address
          /\ last'.intent.token_in = in.req.token_in
          /\ last'.intent.token_out = in.req.token_out]_vars

\* ----------------------------------------------------- claims, SpecExplain
\* the place of a check in the order of the gates
GateIndex(check) == CHOOSE i \in 1..Len(GateOrder) : GateOrder[i] = check

\* C36: the explainability record names every gate that was evaluated with
\* its verdict: for a request rejected at gate n it lists the n-1 gates that
\* passed before it, in order, and then the failing gate.
C36_ExplainabilityListsEveryGate ==
  (calc.phase = "done" /\ calc.out.reason # "")
  => LET n == GateIndex(CheckOfReason(calc.out.reason))
     IN calc.out.checks =
          [i \in 1..n |-> [check |-> GateOrder[i],
                           verdict |-> IF i < n THEN "PASSED" ELSE "FAILED"]]

\* ------------------------------------------------------- claims, SpecCurve
\* C37: every pricing snapshot the price engine emits has a depth curve that
\* is non-empty and strictly increasing in amountInRaw, whatever the grid of
\* the request, unsorted and repeated amounts included.
C37_DepthCurveStrictlyIncreasing ==
  curve.out.kind = "snapshot"
  => /\ curve.out.depthPoints # <<>>
     /\ \A i, j \in 1..Len(curve.out.depthPoints) :
          i < j => curve.out.depthPoints[i].amountInRaw
                     < curve.out.depthPoints[j].amountInRaw

\* -------------------------------------------------------- claims, SpecChat
\* C40: in the maker agent the configuration changes only in a step that
\* handles 'confirm' while an action is pending; every other message, and
\* every message other than 'confirm' received while an action is pending,
\* leaves it unchanged; after 'confirm' or 'cancel' no action is pending.
C40_ConfigChangesOnlyOnConfirm ==
  /\ [][chat'.config # chat.config
          => /\ LowerStrip(chat'.msg) = "confirm"
             /\ chat.pending_action # NoPending]_vars
  /\ [](LowerStrip(chat.msg) \in {"confirm", "cancel"}
          => chat.pending_action = NoPending)

\* a proposed resume was confirmed: the maker is no longer paused and
\* nothing is pending
C40_Witness ==
  /\ LowerStrip(chat.msg) = "confirm"
  /\ chat.config.is_paused = FALSE
  /\ chat.pending_action = NoPending
  /\ chat.reply = "error"

====
